---------------------------- MODULE Spec2Model ----------------------------
(***************************************************************************)
(* A model of AutoTransform: the package pipeline                          *)
(* (src/src/common/package.py), the scheduler                              *)
(* (src/src/python/autotransform/util/schedule.py) and the CODEOWNERS      *)
(* batcher (src/src/python/autotransform/batcher/codeowners.py).           *)
(*                                                                         *)
(* Two more parts are the round trips of the serialized forms: a component *)
(* through its factory (src/tests/input/test_factory.py) and a package     *)
(* through to_json / from_json (package.py).                               *)
(*                                                                         *)
(* The parts share no state.  Each has a specification of its own:         *)
(* SpecPkg, SpecSched, SpecBatch, SpecFactory and SpecJson.  The variables *)
(* of the parts a specification does not run keep their idle values.       *)
(*                                                                         *)
(* SpecHourly runs the scheduler every hour, SpecConsole is input_int of   *)
(* src/autotransform/util/console.py and SpecWizard the configuration      *)
(* wizard of src/autotransform/scripts/commands/initialize.py.             *)
(***************************************************************************)
EXTENDS Integers, Sequences, FiniteSets, TLC

VARIABLES
    \* ---- package pipeline (AutoTransformPackage.run) ----
    config_data,               \* how the PackageConfiguration was built
    allowed_validation_level,  \* config.allowed_validation_level
    n_filters,                 \* len(self.filters)
    n_validators,              \* len(self.validators)
    n_commands,                \* len(self.commands)
    input_files,               \* what is left of self.input.get_files()
    filter_evals,              \* (file, filter, accepted) of the file last filtered
    valid_files,               \* the list valid_files
    batches,                   \* the list batches after line 84
    pk_pc,                     \* position of run(): phase
    pk_b,                      \* position of run(): index of the current batch
    pk_i,                      \* position of run(): index inside the phase
    pk_log,                    \* transform / validate / command calls made, in order
    last_result,               \* the validation_result returned last
    raised,                    \* the exception run() ended with, or NoError
    \* ---- scheduler (Schedule.from_data, Schedule.run) ----
    sched_data,                \* the decoded schedule data (a dict, mutated by from_data)
    now,                       \* start_time of the tick
    schedule,                  \* the Schedule built by from_data: its schemas
    sc_pc,                     \* position of the tick
    sc_idx,                    \* index of the scheduled schema the loop is at
    tick,                      \* the locals run() computes from start_time
    sc_log,                    \* resolutions, should_run calls, filters added, runner calls
    prev_tick,                 \* outcome and log of the previous tick at this instant
    n_ticks,                   \* ticks started so far
    \* ---- CODEOWNERS batcher (CodeownersBatcher.batch) ----
    b_items,                   \* the items given to batch(): the owner of each path
    max_batch_size,            \* self.max_batch_size
    b_metadata,                \* self.metadata
    b_batches,                 \* the list batch() returned
    b_ids,                     \* which dict object each entry of that list is
    b_mutated,                 \* index of the entry the caller mutated, or 0
    b_pc,                      \* "ready", "returned", then "mutated"
    \* ---- component factory (FACTORY.get_instance, bundle) ----
    f_dict,                    \* the component dict given to get_instance
    f_instance,                \* the instance get_instance returned
    f_bundle,                  \* what bundle() of that instance returned
    f_pc,                      \* position of the round trip
    f_components,              \* FACTORY.get_components(): built-in name -> class
    f_custom,                  \* FACTORY.get_custom_components(strict=True)
    \* ---- package serialization (to_json, from_json) ----
    j_doc,                     \* the document the package was first read from, if any
    j_package,                 \* the packages built so far, in order
    j_json,                    \* the documents to_json returned, in order
    j_pc,                      \* position of the round trip
    j_getters,                 \* the keys of FilterFactory._getters
    j_error,                   \* the exception from_json raised, if any
    \* ---- console input (input_int) ----
    i_min,                     \* min_val
    i_max,                     \* max_val
    i_lines,                   \* the lines the user is still to enter
    i_read,                    \* the lines get_str returned so far
    i_is_negative,             \* the local is_negative
    i_pc,                      \* position of input_int
    i_result,                  \* what input_int returned
    \* ---- the initialize wizard (initialize_command_main) ----
    w_files,                   \* the config files on disk, by config name
    w_inputs,                  \* the local inputs of initialize_command_main
    w_repo_dir,                \* repo_dir
    w_setup_repo,              \* setup_repo
    w_written,                 \* the config names write_config wrote a file for
    w_passed,                  \* every prev_inputs map handed on
    w_asked,                   \* the config names a Github token was asked for
    w_pc                       \* position of initialize_command_main

pkgVars == << config_data, allowed_validation_level, n_filters, n_validators,
              n_commands, input_files, filter_evals, valid_files, batches,
              pk_pc, pk_b, pk_i, pk_log, last_result, raised >>

schedVars == << sched_data, now, schedule, sc_pc, sc_idx, tick, sc_log,
                prev_tick, n_ticks >>

batchVars == << b_items, max_batch_size, b_metadata, b_batches, b_ids,
               b_mutated, b_pc >>

factVars == << f_dict, f_instance, f_bundle, f_pc, f_components, f_custom >>

jsonVars == << j_doc, j_package, j_json, j_pc, j_getters, j_error >>

consoleVars == << i_min, i_max, i_lines, i_read, i_is_negative, i_pc,
                  i_result >>

wizardVars == << w_files, w_inputs, w_repo_dir, w_setup_repo, w_written,
                 w_passed, w_asked, w_pc >>

vars == << pkgVars, schedVars, batchVars, factVars, jsonVars, consoleVars,
           wizardVars >>

\* What the actions of one part leave unchanged
notPkg == << schedVars, batchVars, factVars, jsonVars, consoleVars, wizardVars >>
notSched == << pkgVars, batchVars, factVars, jsonVars, consoleVars, wizardVars >>
notBatch == << pkgVars, schedVars, factVars, jsonVars, consoleVars, wizardVars >>
notFact == << pkgVars, schedVars, batchVars, jsonVars, consoleVars, wizardVars >>
notJson == << pkgVars, schedVars, batchVars, factVars, consoleVars, wizardVars >>
notConsole == << pkgVars, schedVars, batchVars, factVars, jsonVars, wizardVars >>
notWizard == << pkgVars, schedVars, batchVars, factVars, jsonVars, consoleVars >>

-----------------------------------------------------------------------------
(* Bounds of the model *)

MaxFiles == 3
MaxFilters == 2
MaxValidators == 2
MaxCommands == 2

-----------------------------------------------------------------------------
(* Helpers on sequences *)

Range(s) == { s[k] : k \in 1..Len(s) }

IsPrefix(s, t) == Len(s) <= Len(t) /\ SubSeq(t, 1, Len(s)) = s

RECURSIVE Flatten(_)
Flatten(ss) == IF ss = << >> THEN << >> ELSE Head(ss) \o Flatten(Tail(ss))

-----------------------------------------------------------------------------
(* ValidationResultLevel (validator.base): NONE < WARNING < ERROR *)

NONE == 0
WARNING == 1
ERROR == 2

Levels == { NONE, WARNING, ERROR }

\* ValidationResultLevel.has_value
has_value(v) == v \in Levels

\* ValidationResultLevel._member_map_
member_map(name) ==
    CASE name = "NONE" -> NONE
      [] name = "WARNING" -> WARNING
      [] name = "ERROR" -> ERROR

LevelNames == { "NONE", "WARNING", "ERROR" }

-----------------------------------------------------------------------------
(* The values of the parts that are not running *)

NoError == [kind |-> "none", level |-> NONE, batch |-> 0, validator |-> 0]
NoResult == [level |-> NONE, batch |-> 0, validator |-> 0]

NoTick == [elapsed_hours |-> 0, elapsed_days |-> 0, hour_of_day |-> 0,
           elapsed_weeks |-> 0, day_of_week |-> 0]
NoPrev == [pc |-> "none", log |-> << >>]

PkgIdle ==
    /\ config_data = [kind |-> "ctor_default", v |-> 0, n |-> ""]
    /\ allowed_validation_level = NONE
    /\ n_filters = 0
    /\ n_validators = 0
    /\ n_commands = 0
    /\ input_files = << >>
    /\ filter_evals = << >>
    /\ valid_files = << >>
    /\ batches = << >>
    /\ pk_pc = "idle"
    /\ pk_b = 0
    /\ pk_i = 0
    /\ pk_log = << >>
    /\ last_result = NoResult
    /\ raised = NoError

SchedIdle ==
    /\ sched_data = [base_time |-> 0, excluded_days |-> {}, schemas |-> << >>]
    /\ now = 0
    /\ schedule = << >>
    /\ sc_pc = "off"
    /\ sc_idx = 0
    /\ tick = NoTick
    /\ sc_log = << >>
    /\ prev_tick = NoPrev
    /\ n_ticks = 0

NoMetadata == [present |-> FALSE, has_team_reviewers |-> FALSE,
               team_reviewers |-> << >>, has_reviewers |-> FALSE,
               reviewers |-> << >>, labels |-> << >>]

BatchIdle ==
    /\ b_items = << >>
    /\ max_batch_size = 0
    /\ b_metadata = NoMetadata
    /\ b_batches = << >>
    /\ b_ids = << >>
    /\ b_mutated = 0
    /\ b_pc = "off"

\* No component, no instance, no document
Nothing == [none |-> TRUE]

FactIdle ==
    /\ f_dict = Nothing
    /\ f_instance = Nothing
    /\ f_bundle = Nothing
    /\ f_pc = "off"
    /\ f_components = << >>
    /\ f_custom = << >>

JsonIdle ==
    /\ j_doc = Nothing
    /\ j_package = << >>
    /\ j_json = << >>
    /\ j_pc = "off"
    /\ j_getters = {}
    /\ j_error = Nothing

\* Optional[int] = None
None == [none |-> TRUE]

ConsoleIdle ==
    /\ i_min = None
    /\ i_max = None
    /\ i_lines = << >>
    /\ i_read = << >>
    /\ i_is_negative = "unbound"
    /\ i_pc = "off"
    /\ i_result = None

WizardIdle ==
    /\ w_files = << >>
    /\ w_inputs = << >>
    /\ w_repo_dir = ""
    /\ w_setup_repo = FALSE
    /\ w_written = {}
    /\ w_passed = {}
    /\ w_asked = {}
    /\ w_pc = "off"

-----------------------------------------------------------------------------
(* PackageConfiguration *)

\* The ways a configuration is built: by the constructor's default, from data
\* without the key, from data holding the level's value, or its member name.
ConfigInputs ==
    { [kind |-> "ctor_default", v |-> 0, n |-> ""],
      [kind |-> "absent", v |-> 0, n |-> ""] }
    \cup { [kind |-> "value", v |-> l, n |-> ""] : l \in Levels }
    \cup { [kind |-> "name", v |-> 0, n |-> nm] : nm \in LevelNames }

\* PackageConfiguration.__init__ with no argument
PackageConfiguration_default == NONE

\* PackageConfiguration.from_data
PackageConfiguration_from_data(d) ==
    IF d.kind # "absent"
    THEN IF d.kind = "value" /\ has_value(d.v) THEN d.v ELSE member_map(d.n)
    ELSE NONE

BuildConfig(d) ==
    IF d.kind = "ctor_default"
    THEN PackageConfiguration_default
    ELSE PackageConfiguration_from_data(d)

-----------------------------------------------------------------------------
(* AutoTransformPackage.run *)

\* Every filter evaluated, whatever the earlier ones answered
FiltersEvaluatedNoBreak(acc) == Len(acc)

\* The filters run() evaluates on one file whose filters would answer acc:
\* in order, stopping at the first that rejects (lines 77-80).
FiltersEvaluated(acc) ==
    LET rejecting == { j \in 1..Len(acc) : ~acc[j] }
    IN  IF rejecting = {}
        THEN Len(acc)
        ELSE CHOOSE j \in rejecting : \A k \in rejecting : j <= k

\* is_valid after the filter loop (lines 76-81)
IsValidAfterFilters(acc) == \A j \in 1..FiltersEvaluated(acc) : acc[j]

\* What a Batcher may return for n valid files: lists of lists of indices
\* into valid_files.  The chunk batchers of every size, and one that groups
\* the odd positions before the even ones (as an owner based batcher does).
ChunkOf(n, c, k) == [ j \in 1..(IF k * c <= n THEN c ELSE n - (k - 1) * c)
                        |-> (k - 1) * c + j ]

ChunkBatches(n, c) == [ k \in 1..((n + c - 1) \div c) |-> ChunkOf(n, c, k) ]

OddsThenEvens(n) ==
    << [ j \in 1..((n + 1) \div 2) |-> 2 * j - 1 ],
       [ j \in 1..(n \div 2) |-> 2 * j ] >>

BatcherResults(n) ==
    IF n = 0
    THEN { << >> }
    ELSE { ChunkBatches(n, c) : c \in 1..n }
         \cup (IF n >= 2 THEN { OddsThenEvens(n) } ELSE {})

\* Line 84: the indices of a batch replaced by the files
ResolveBatches(bs, files) ==
    [ b \in 1..Len(bs) |-> [ j \in 1..Len(bs[b]) |-> files[bs[b][j]] ] ]

\* The position the loops of lines 85-93 are at, from a candidate position:
\* a phase with nothing left to do falls through to the next one.
RECURSIVE LoopPositionInterleaved(_, _, _, _, _, _)
LoopPositionInterleaved(bs, nv, nc, phase, b, i) ==
    IF b > Len(bs)
    THEN IF phase = "transform" /\ Len(bs) > 0
         THEN LoopPositionInterleaved(bs, nv, nc, "validate", 1, 1)
         ELSE [pc |-> "done", b |-> 0, i |-> 0]
    ELSE CASE phase = "transform" ->
                IF i <= Len(bs[b])
                THEN [pc |-> "transform", b |-> b, i |-> i]
                ELSE LoopPositionInterleaved(bs, nv, nc, "transform", b + 1, 1)
           [] phase = "validate" ->
                IF i <= nv
                THEN [pc |-> "validate", b |-> b, i |-> i]
                ELSE LoopPositionInterleaved(bs, nv, nc, "command", b, 1)
           [] phase = "command" ->
                IF i <= nc
                THEN [pc |-> "command", b |-> b, i |-> i]
                ELSE LoopPositionInterleaved(bs, nv, nc, "validate", b + 1, 1)

RECURSIVE LoopPosition(_, _, _, _, _, _)
LoopPosition(bs, nv, nc, phase, b, i) ==
    IF b > Len(bs)
    THEN [pc |-> "done", b |-> 0, i |-> 0]
    ELSE CASE phase = "transform" ->
                IF i <= Len(bs[b])
                THEN [pc |-> "transform", b |-> b, i |-> i]
                ELSE LoopPosition(bs, nv, nc, "validate", b, 1)
           [] phase = "validate" ->
                IF i <= nv
                THEN [pc |-> "validate", b |-> b, i |-> i]
                ELSE LoopPosition(bs, nv, nc, "command", b, 1)
           [] phase = "command" ->
                IF i <= nc
                THEN [pc |-> "command", b |-> b, i |-> i]
                ELSE LoopPosition(bs, nv, nc, "transform", b + 1, 1)

GoTo(pos) == pk_pc' = pos.pc /\ pk_b' = pos.b /\ pk_i' = pos.i

\* Line 90: the validation gate
GateAtOrAbove(level, allowed) == level >= allowed

Gate(level, allowed) == level > allowed

\* Line 91: raise ValidationError(validation_result) ends run()
RaiseAndCarryOn(res) ==
    /\ raised' = [kind |-> "ValidationError", level |-> res.level,
                  batch |-> res.batch, validator |-> res.validator]
    /\ GoTo(LoopPosition(batches, n_validators, n_commands,
                         "validate", pk_b, pk_i + 1))

Raise(res) ==
    /\ raised' = [kind |-> "ValidationError", level |-> res.level,
                  batch |-> res.batch, validator |-> res.validator]
    /\ GoTo([pc |-> "raised", b |-> pk_b, i |-> pk_i])

PkgInit ==
    /\ config_data \in ConfigInputs
    /\ allowed_validation_level = BuildConfig(config_data)
    /\ n_filters \in 0..MaxFilters
    /\ n_validators \in 0..MaxValidators
    /\ n_commands \in 0..MaxCommands
    /\ \E n \in 0..MaxFiles : input_files = [ f \in 1..n |-> f ]
    /\ filter_evals = << >>
    /\ valid_files = << >>
    /\ batches = << >>
    /\ pk_pc = "filter"
    /\ pk_b = 0
    /\ pk_i = 0
    /\ pk_log = << >>
    /\ last_result = NoResult
    /\ raised = NoError
    /\ SchedIdle
    /\ BatchIdle
    /\ FactIdle
    /\ JsonIdle
    /\ ConsoleIdle
    /\ WizardIdle

\* Lines 74-82: one iteration of the filter loop
FilterFile ==
    /\ pk_pc = "filter"
    /\ input_files # << >>
    /\ \E acc \in [ 1..n_filters -> BOOLEAN ] :
          LET f == Head(input_files)
          IN  /\ filter_evals' = [ j \in 1..FiltersEvaluated(acc)
                                     |-> << f, j, acc[j] >> ]
              /\ valid_files' = IF IsValidAfterFilters(acc)
                                THEN Append(valid_files, f)
                                ELSE valid_files
    /\ input_files' = Tail(input_files)
    /\ UNCHANGED << config_data, allowed_validation_level, n_filters,
                    n_validators, n_commands, batches, pk_pc, pk_b, pk_i,
                    pk_log, last_result, raised, notPkg >>

\* Lines 83-84: the batcher is called on the valid files
Batch ==
    /\ pk_pc = "filter"
    /\ input_files = << >>
    /\ \E bs \in BatcherResults(Len(valid_files)) :
          LET resolved == ResolveBatches(bs, valid_files)
          IN  /\ batches' = resolved
              /\ GoTo(LoopPosition(resolved, n_validators, n_commands,
                                   "transform", 1, 1))
    /\ UNCHANGED << config_data, allowed_validation_level, n_filters,
                    n_validators, n_commands, input_files, filter_evals,
                    valid_files, pk_log, last_result, raised, notPkg >>

\* Lines 86-87: the transformer on one file of the batch; it may fail
Transform ==
    /\ pk_pc = "transform"
    /\ pk_log' = Append(pk_log, << "transform", pk_b, batches[pk_b][pk_i] >>)
    /\ \/ /\ GoTo(LoopPosition(batches, n_validators, n_commands,
                               "transform", pk_b, pk_i + 1))
          /\ UNCHANGED raised
       \/ /\ GoTo([pc |-> "error", b |-> pk_b, i |-> pk_i])
          /\ raised' = [kind |-> "TransformError", level |-> NONE,
                        batch |-> pk_b, validator |-> 0]
    /\ UNCHANGED << config_data, allowed_validation_level, n_filters,
                    n_validators, n_commands, input_files, filter_evals,
                    valid_files, batches, last_result, notPkg >>

\* Lines 88-91: one validator on the whole batch, then the gate
Validate ==
    /\ pk_pc = "validate"
    /\ \E level \in Levels :
          LET res == [level |-> level, batch |-> pk_b, validator |-> pk_i]
          IN  /\ last_result' = res
              /\ pk_log' = Append(pk_log, << "validate", pk_b, pk_i >>)
              /\ IF Gate(level, allowed_validation_level)
                 THEN Raise(res)
                 ELSE /\ GoTo(LoopPosition(batches, n_validators, n_commands,
                                           "validate", pk_b, pk_i + 1))
                      /\ UNCHANGED raised
    /\ UNCHANGED << config_data, allowed_validation_level, n_filters,
                    n_validators, n_commands, input_files, filter_evals,
                    valid_files, batches, notPkg >>

\* Lines 92-93: one command on the batch; it may fail
Command ==
    /\ pk_pc = "command"
    /\ pk_log' = Append(pk_log, << "command", pk_b, pk_i >>)
    /\ \/ /\ GoTo(LoopPosition(batches, n_validators, n_commands,
                               "command", pk_b, pk_i + 1))
          /\ UNCHANGED raised
       \/ /\ GoTo([pc |-> "error", b |-> pk_b, i |-> pk_i])
          /\ raised' = [kind |-> "CommandError", level |-> NONE,
                        batch |-> pk_b, validator |-> 0]
    /\ UNCHANGED << config_data, allowed_validation_level, n_filters,
                    n_validators, n_commands, input_files, filter_evals,
                    valid_files, batches, last_result, notPkg >>

PkgNext == FilterFile \/ Batch \/ Transform \/ Validate \/ Command

SpecPkg == PkgInit /\ [][PkgNext]_vars

-----------------------------------------------------------------------------
(* Claims on the package pipeline, under SpecPkg *)

Last(s) == s[Len(s)]

LastIsValidate == pk_log # << >> /\ Last(pk_log)[1] = "validate"

Aborted == pk_pc = "raised" /\ raised.kind = "ValidationError"

\* NONE < WARNING < ERROR, stated without the levels' encoding
LevelAbove(a, b) ==
    << a, b >> \in { << WARNING, NONE >>, << ERROR, NONE >>, << ERROR, WARNING >> }

C1_State ==
    raised.kind = "ValidationError" =>
        /\ pk_pc = "raised"
        /\ \A k \in 1..Len(pk_log) :
              pk_log[k][1] = "command" => pk_log[k][2] < raised.batch
        /\ \A b \in 1..(raised.batch - 1) : \A c \in 1..n_commands :
              << "command", b, c >> \in Range(pk_log)
        /\ Last(pk_log) = << "validate", raised.batch, raised.validator >>
        /\ raised.level = last_result.level
        /\ last_result.batch = raised.batch
        /\ last_result.validator = raised.validator
        /\ LevelAbove(raised.level, allowed_validation_level)

\* C1: fail-fast gate.  Once a validator on batch k returned a level above
\* the allowed one, run() has ended with the ValidationError carrying that
\* result; no command ran or ever runs on batch k or a later batch, every
\* command ran on each of the batches 1..k-1, and nothing is retried.
C1_FailFast ==
    /\ [] C1_State
    /\ [][ raised.kind = "ValidationError" => UNCHANGED pkgVars ]_vars

C1_Witness ==
    /\ raised.kind = "ValidationError"
    /\ raised.batch = 2
    /\ Len(batches) = 3
    /\ n_commands = 2
    /\ << "command", 1, 2 >> \in Range(pk_log)

\* C2: validation gate.  Right after any validator returned, run() has
\* aborted iff the returned level is above the allowed level in the order
\* NONE < WARNING < ERROR (an equal level continues); a configuration built
\* by the constructor's default or from data without the key allows NONE.
C2_ValidationGate ==
    /\ LastIsValidate =>
          (Aborted <=> LevelAbove(last_result.level, allowed_validation_level))
    /\ config_data.kind \in { "ctor_default", "absent" } =>
          allowed_validation_level = NONE
    /\ config_data.kind = "value" => allowed_validation_level = config_data.v
    /\ allowed_validation_level \in Levels

C2_Witness ==
    /\ LastIsValidate
    /\ last_result.level = WARNING
    /\ allowed_validation_level = WARNING
    /\ config_data.kind = "name"
    /\ ~Aborted

\* The calls of a complete run, in order: per batch, in the batcher's order,
\* the transformer on each item, each validator once, each command.
ExpectedOfBatch(b) ==
    [ i \in 1..Len(batches[b]) |-> << "transform", b, batches[b][i] >> ]
    \o [ j \in 1..n_validators |-> << "validate", b, j >> ]
    \o [ c \in 1..n_commands |-> << "command", b, c >> ]

ExpectedLog == Flatten([ b \in 1..Len(batches) |-> ExpectedOfBatch(b) ])

\* C3: strict sequencing.  The calls made so far are a prefix of the
\* expected order (batch by batch, transform then validate then command, no
\* call of batch i+1 before the last call of batch i), and a run that ends
\* normally made exactly those calls.
C3_Sequencing ==
    /\ IsPrefix(pk_log, ExpectedLog)
    /\ pk_pc = "done" => pk_log = ExpectedLog

C3_Witness ==
    /\ pk_pc = "done"
    /\ Len(batches) = 2
    /\ Len(batches[1]) = 2
    /\ n_validators = 2
    /\ n_commands = 2
    /\ Len(pk_log) = 11

\* The filter calls made on the file f are those of filter_evals: the
\* filters 1, 2, ... in configured order, none after one that rejected
EvaluatedInOrder(evals, f) ==
    /\ Len(evals) <= n_filters
    /\ \A j \in 1..Len(evals) : evals[j][1] = f /\ evals[j][2] = j
    /\ \A j \in 1..(Len(evals) - 1) : evals[j][3]
    /\ Len(evals) < n_filters => ~evals[Len(evals)][3]

\* Every configured filter was evaluated on the file and accepted it
AllAccepted(evals) ==
    /\ Len(evals) = n_filters
    /\ \A j \in 1..Len(evals) : evals[j][3]

\* The files of a list are in the order the Input produced them
InInputOrder(files) ==
    \A i, j \in 1..Len(files) : i < j => files[i] < files[j]

\* C15: filtering.  A file survives iff every configured filter accepts it;
\* the filters are evaluated in configured order and none after the first
\* that rejects; the surviving files reach the batcher in the relative
\* order in which the Input produced them.
C15_Filtering ==
    /\ [] InInputOrder(valid_files)
    /\ [][ input_files' # input_files =>
              /\ EvaluatedInOrder(filter_evals', Head(input_files))
              /\ valid_files' = IF AllAccepted(filter_evals')
                                THEN Append(valid_files, Head(input_files))
                                ELSE valid_files ]_vars
    /\ [][ batches' # batches =>
              /\ input_files = << >>
              /\ valid_files' = valid_files
              /\ Range(Flatten(batches')) \subseteq Range(valid_files) ]_vars

\* Three files: one accepted by both filters, one rejected by the first
\* (the second never asked), one rejected by the second
C15_Witness ==
    /\ n_filters = 2
    /\ input_files = << >>
    /\ valid_files = << 1 >>
    /\ filter_evals = << << 3, 1, FALSE >> >>
    /\ Len(batches) = 1

-----------------------------------------------------------------------------
(* The scheduler: schedule.py *)

\* RepeatSetting
DAILY == "daily"
WEEKLY == "weekly"

\* SchemaType
BUILDER == "builder"
FILE == "file"

\* day_of_week: Optional[int] = None; sharding: Optional[ShardFilter] = None
NoDay == -1
NoSharding == 0
\* the data's sharding dict has no "valid_shard" key
NoShard == -1

SecondsPerHour == 60 * 60
SecondsPerDay == 24 * SecondsPerHour

\* One scheduled schema of the data.  resolves and runner_ok are the
\* environment's part: whether the file or builder can be resolved, and
\* whether the Runner's run of the schema returns or raises.
ScheduledSchemaData(type, resolves, runner_ok, repeats, hour, day, shards) ==
    [type |-> type, resolves |-> resolves, runner_ok |-> runner_ok,
     repeats |-> repeats, hour_of_day |-> hour, day_of_week |-> day,
     num_shards |-> shards, valid_shard |-> NoShard,
     hour_is_int |-> TRUE, day_is_int |-> TRUE]

SchemaChoices ==
    { ScheduledSchemaData(FILE, TRUE, TRUE, DAILY, 1, NoDay, NoSharding),
      ScheduledSchemaData(BUILDER, TRUE, TRUE, DAILY, 1, 3, 4),
      ScheduledSchemaData(FILE, TRUE, TRUE, DAILY, 0, NoDay, 2),
      ScheduledSchemaData(FILE, TRUE, TRUE, WEEKLY, 1, 1, 2),
      ScheduledSchemaData(BUILDER, TRUE, TRUE, WEEKLY, 0, 0, 2),
      ScheduledSchemaData(FILE, TRUE, TRUE, WEEKLY, 1, NoDay, NoSharding),
      ScheduledSchemaData(FILE, FALSE, TRUE, DAILY, 1, NoDay, NoSharding),
      ScheduledSchemaData(BUILDER, TRUE, FALSE, DAILY, 1, NoDay, 2),
      ScheduledSchemaData(FILE, FALSE, TRUE, WEEKLY, 0, 4, NoSharding) }

\* Entries from_data is to refuse: a type or a repeats outside the enum,
\* an hour or a day out of range, an hour or a day that is not an int
\* (hour_of_day: "5", day_of_week: 2.5)
MalformedChoices ==
    { ScheduledSchemaData("script", TRUE, TRUE, DAILY, 1, NoDay, NoSharding),
      ScheduledSchemaData(FILE, TRUE, TRUE, "monthly", 1, NoDay, NoSharding),
      ScheduledSchemaData(FILE, TRUE, TRUE, DAILY, 24, NoDay, 2),
      ScheduledSchemaData(BUILDER, TRUE, TRUE, WEEKLY, 1, 7, NoSharding),
      [ScheduledSchemaData(FILE, TRUE, TRUE, DAILY, 5, NoDay, NoSharding)
          EXCEPT !.hour_is_int = FALSE],
      [ScheduledSchemaData(FILE, TRUE, TRUE, WEEKLY, 1, 2, NoSharding)
          EXCEPT !.day_is_int = FALSE] }

MaxSchemas == 2
MaxTicks == 2

SchemaLists ==
    UNION { [ 1..n -> SchemaChoices \cup MalformedChoices ] : n \in 0..MaxSchemas }

\* excluded_days as from_console sets it: none, or the weekend
ExcludedChoices == { {}, { 5, 6 } }

\* excluded_days from_data is to refuse: a day out of range
MalformedExcluded == { { 6, 7 } }

\* base_time: the epoch, and 2022-05-23T00:00:00 (from_console)
BaseMonday == 1653264000
BaseTimes == { 0, BaseMonday }

\* start_time - base_time of the ticks the model runs
Offsets ==
    { 0 - 7 * SecondsPerDay - 1, 0 - 25 * SecondsPerHour, 0 - 1, 0,
      SecondsPerHour, 25 * SecondsPerHour,
      5 * SecondsPerDay + SecondsPerHour, 6 * SecondsPerDay + SecondsPerHour,
      8 * SecondsPerDay + SecondsPerHour }

\* int(x / d) of Python: the quotient truncated towards zero
IntOfQuotient(x, d) == IF x >= 0 THEN x \div d ELSE 0 - ((0 - x) \div d)

\* Lines 301-305 of Schedule.run
Decompose(start_time, base_time) ==
    LET elapsed_time == start_time - base_time
        elapsed_hours == IntOfQuotient(elapsed_time, 60 * 60)
        elapsed_days == elapsed_hours \div 24
        hour_of_day == elapsed_hours % 24
        elapsed_weeks == elapsed_days \div 7
        day_of_week == elapsed_days % 7
    IN  [elapsed_hours |-> elapsed_hours, elapsed_days |-> elapsed_days,
         hour_of_day |-> hour_of_day, elapsed_weeks |-> elapsed_weeks,
         day_of_week |-> day_of_week]

\* Line 314
IsExcludedOneBased(day_of_week, excluded_days) == (day_of_week + 1) \in excluded_days

IsExcluded(day_of_week, excluded_days) == day_of_week \in excluded_days

\* SchemaScheduleSettings.should_run, lines 85-87
should_run(settings, hour_of_day, day_of_week) ==
    /\ settings.hour_of_day = hour_of_day
    /\ \/ settings.repeats = DAILY
       \/ settings.day_of_week = day_of_week

\* Line 396 of Schedule.from_data
ElapsedDaysAtLoad(start_time, base_time) ==
    (((start_time - base_time) \div 60) \div 60) \div 24

\* Lines 139-142 of SchemaScheduleSettings.from_data; stored is the
\* "valid_shard" the sharding dict holds on entry, which the code overwrites
ValidShardCounter(repeats, elapsed_days, num_shards, stored) ==
    IF stored # NoShard
    THEN (stored + 1) % num_shards
    ELSE IF repeats = DAILY
         THEN elapsed_days % num_shards
         ELSE (elapsed_days \div 7) % num_shards

ValidShard(repeats, elapsed_days, num_shards, stored) ==
    IF repeats = DAILY
    THEN elapsed_days % num_shards
    ELSE (elapsed_days \div 7) % num_shards

\* ScheduledSchema.from_data and SchemaScheduleSettings.from_data on one
\* entry d: the entry with its shard filter's valid_shard set (line 143)
ScheduledSchema_from_data(d, elapsed_days) ==
    IF d.num_shards # NoSharding
    THEN [d EXCEPT !.valid_shard =
             ValidShard(d.repeats, elapsed_days, d.num_shards, d.valid_shard)]
    ELSE d

\* RepeatSetting(data["repeats"]), SchemaType(data["type"]): a value
\* outside the enum raises ValueError
IsRepeatSetting(v) == v \in { DAILY, WEEKLY }
IsSchemaType(v) == v \in { BUILDER, FILE }

\* range(25) in the place of range(24)
HourInRangeInclusive(hour) == hour \in 0..24

\* Line 128: hour_of_day in range(24)
HourInRange(hour) == hour \in 0..23

\* Line 132: day_of_week in range(7); line 393 for an excluded day
DayInRange(day) == day \in 0..6

\* SchemaScheduleSettings.from_data, lines 125-132, returns
SettingsAccepted(d) ==
    /\ IsRepeatSetting(d.repeats)
    /\ d.hour_is_int
    /\ HourInRange(d.hour_of_day)
    /\ d.day_of_week # NoDay => (d.day_is_int /\ DayInRange(d.day_of_week))

\* ScheduledSchema.from_data, lines 251-254, returns
SchemaAccepted(d) == IsSchemaType(d.type) /\ SettingsAccepted(d)

\* Lines 390-393 pass: every excluded day is an int of range(7)
ExcludedAccepted(data) == \A day \in data.excluded_days : DayInRange(day)

\* The entries of data.schemas that from_data reads before one raises
AcceptedPrefix(data) ==
    LET refused == { k \in 1..Len(data.schemas) :
                       ~SchemaAccepted(data.schemas[k]) }
    IN  IF ~ExcludedAccepted(data) THEN 0
        ELSE IF refused = {} THEN Len(data.schemas)
        ELSE (CHOOSE k \in refused : \A m \in refused : k <= m) - 1

\* Schedule.from_data returns a Schedule
DataAccepted(data) ==
    ExcludedAccepted(data) /\ AcceptedPrefix(data) = Len(data.schemas)

\* Schedule.from_data, line 397
Schedule_from_data(data, start_time) ==
    [ k \in 1..Len(data.schemas) |->
        ScheduledSchema_from_data(data.schemas[k],
                                  ElapsedDaysAtLoad(start_time, data.base_time)) ]

Ev(ev, idx, flag, repeats, ns, vs) ==
    [ev |-> ev, idx |-> idx, flag |-> flag, repeats |-> repeats,
     num_shards |-> ns, valid_shard |-> vs]

Finished == { "done", "skipped", "failed" }

SchedInit ==
    /\ \E b \in BaseTimes, x \in ExcludedChoices \cup MalformedExcluded,
          ss \in SchemaLists :
          sched_data = [base_time |-> b, excluded_days |-> x, schemas |-> ss]
    /\ \E off \in Offsets : now = sched_data.base_time + off
    /\ schedule = << >>
    /\ sc_pc = "idle"
    /\ sc_idx = 0
    /\ tick = NoTick
    /\ sc_log = << >>
    /\ prev_tick = NoPrev
    /\ n_ticks = 0
    /\ PkgIdle
    /\ BatchIdle
    /\ FactIdle
    /\ JsonIdle
    /\ ConsoleIdle
    /\ WizardIdle

\* Schedule.from_data(data, start_time), lines 388-398.  The sharding dicts
\* of the data are written to (line 143) and stay so.
Load ==
    /\ sc_pc = "idle"
    /\ DataAccepted(sched_data)
    /\ schedule' = Schedule_from_data(sched_data, now)
    /\ sched_data' = [sched_data EXCEPT !.schemas = schedule']
    /\ sc_pc' = "loaded"
    /\ n_ticks' = n_ticks + 1
    /\ UNCHANGED << now, sc_idx, tick, sc_log, prev_tick, notSched >>

\* Schedule.from_data raises (an assert of lines 126-132 or 390-393, a
\* ValueError of lines 125 or 251): no Schedule is returned.  The sharding
\* dicts of the entries read before are written to already.
LoadRejected ==
    /\ sc_pc = "idle"
    /\ ~DataAccepted(sched_data)
    /\ sched_data' =
          [sched_data EXCEPT !.schemas =
              [ k \in 1..Len(sched_data.schemas) |->
                  IF k <= AcceptedPrefix(sched_data)
                  THEN Schedule_from_data(sched_data, now)[k]
                  ELSE sched_data.schemas[k] ]]
    /\ sc_pc' = "rejected"
    /\ n_ticks' = n_ticks + 1
    /\ UNCHANGED << now, schedule, sc_idx, tick, sc_log, prev_tick, notSched >>

\* Schedule.run(start_time), lines 301-322: the time decomposition and the
\* excluded day's return
RunBegin ==
    /\ sc_pc = "loaded"
    /\ tick' = Decompose(now, sched_data.base_time)
    /\ IF IsExcluded(tick'.day_of_week, sched_data.excluded_days)
       THEN sc_pc' = "skipped" /\ sc_idx' = 0
       ELSE sc_pc' = "loop" /\ sc_idx' = 1
    /\ UNCHANGED << sched_data, now, schedule, sc_log, prev_tick, n_ticks,
                    notSched >>

\* Lines 326-336: the schema's file or builder cannot be resolved; the
\* exception leaves run()
ResolveFails ==
    /\ sc_pc = "loop"
    /\ sc_idx <= Len(schedule)
    /\ ~schedule[sc_idx].resolves
    /\ sc_log' = Append(sc_log, Ev("resolve", sc_idx, FALSE, "", 0, 0))
    /\ sc_pc' = "failed"
    /\ UNCHANGED << sched_data, now, schedule, sc_idx, tick, prev_tick,
                    n_ticks, notSched >>

\* Lines 326-345: resolved, should_run is false, continue
SkipSchema ==
    /\ sc_pc = "loop"
    /\ sc_idx <= Len(schedule)
    /\ schedule[sc_idx].resolves
    /\ ~should_run(schedule[sc_idx], tick.hour_of_day, tick.day_of_week)
    /\ sc_log' = sc_log \o << Ev("resolve", sc_idx, TRUE, "", 0, 0),
                              Ev("should_run", sc_idx, FALSE, "", 0, 0) >>
    /\ sc_idx' = sc_idx + 1
    /\ UNCHANGED << sched_data, now, schedule, sc_pc, tick, prev_tick,
                    n_ticks, notSched >>

\* Lines 326-360: resolved, should_run is true, the shard filter (if any) is
\* added and the Runner is called; an exception of the Runner leaves run()
Dispatch ==
    /\ sc_pc = "loop"
    /\ sc_idx <= Len(schedule)
    /\ schedule[sc_idx].resolves
    /\ should_run(schedule[sc_idx], tick.hour_of_day, tick.day_of_week)
    /\ LET s == schedule[sc_idx]
           sharded == s.num_shards # NoSharding
           vs == IF sharded THEN s.valid_shard ELSE NoShard
       IN  /\ sc_log' = sc_log
                \o << Ev("resolve", sc_idx, TRUE, "", 0, 0),
                      Ev("should_run", sc_idx, TRUE, "", 0, 0) >>
                \o (IF sharded
                    THEN << Ev("add_filter", sc_idx, TRUE, s.repeats,
                               s.num_shards, vs) >>
                    ELSE << >>)
                \o << Ev("run", sc_idx, s.runner_ok, s.repeats,
                         s.num_shards, vs) >>
           /\ IF s.runner_ok
              THEN sc_pc' = "loop" /\ sc_idx' = sc_idx + 1
              ELSE sc_pc' = "failed" /\ sc_idx' = sc_idx
    /\ UNCHANGED << sched_data, now, schedule, tick, prev_tick, n_ticks,
                    notSched >>

\* Line 324: the loop is over
TickDone ==
    /\ sc_pc = "loop"
    /\ sc_idx > Len(schedule)
    /\ sc_pc' = "done"
    /\ UNCHANGED << sched_data, now, schedule, sc_idx, tick, sc_log,
                    prev_tick, n_ticks, notSched >>

\* The scheduler is invoked again at the same instant on the same data
Retick ==
    /\ sc_pc \in Finished
    /\ n_ticks < MaxTicks
    /\ prev_tick' = [pc |-> sc_pc, log |-> sc_log]
    /\ sc_pc' = "idle"
    /\ sc_idx' = 0
    /\ schedule' = << >>
    /\ tick' = NoTick
    /\ sc_log' = << >>
    /\ UNCHANGED << sched_data, now, n_ticks, notSched >>

SchedNext ==
    Load \/ LoadRejected \/ RunBegin \/ ResolveFails \/ SkipSchema \/ Dispatch \/ TickDone
         \/ Retick

SpecSched == SchedInit /\ [][SchedNext]_vars

-----------------------------------------------------------------------------
(* Claims on the scheduler, under SpecSched *)

InTick == sc_pc \in { "loop", "done", "skipped", "failed" }

RunEvents(log) == { e \in Range(log) : e.ev = "run" }

Dispatched(i) == \E e \in RunEvents(sc_log) : e.idx = i

\* should_run as the claim states it, on the tick's hour and day
Due(i) ==
    /\ tick.hour_of_day = schedule[i].hour_of_day
    /\ \/ schedule[i].repeats = DAILY
       \/ tick.day_of_week = schedule[i].day_of_week

\* C4: exclusion.  On a tick whose computed day_of_week is an excluded day,
\* run() returns having resolved no schema, evaluated no should_run, added
\* no shard filter and called no Runner.
C4_Exclusion ==
    (InTick /\ tick.day_of_week \in sched_data.excluded_days) =>
        (sc_pc = "skipped" /\ sc_log = << >>)

C4_Witness ==
    /\ sc_pc = "skipped"
    /\ tick.day_of_week = 6
    /\ \E i \in 1..Len(schedule) : Due(i) /\ schedule[i].num_shards = 4

\* C5: should_run is true iff the hours are equal and the setting is DAILY
\* or the days are equal; and on a tick that is not excluded a schema is
\* dispatched to the Runner iff its should_run is true (stated here only
\* of the schemas whose own file or builder resolves).
C5_ShouldRunDispatch ==
    /\ \A s \in SchemaChoices : \A h \in 0..23 : \A d \in 0..6 :
          should_run(s, h, d) <=>
             (h = s.hour_of_day /\ (s.repeats = DAILY \/ d = s.day_of_week))
    /\ sc_pc \in { "done", "failed" } =>
          \A i \in 1..Len(schedule) :
              schedule[i].resolves => (Dispatched(i) <=> Due(i))

\* C6: shard resolution.  The shard filter a dispatched sharded schema
\* carries has the configured num_shards and valid_shard = elapsed_days mod
\* num_shards (DAILY) or elapsed_weeks mod num_shards (WEEKLY), with the
\* elapsed_days and elapsed_weeks this tick computed, for every now.
C6_ShardResolution ==
    \A e \in Range(sc_log) :
        (e.ev \in { "add_filter", "run" } /\ schedule[e.idx].num_shards # NoSharding) =>
            /\ e.num_shards = schedule[e.idx].num_shards
            /\ e.valid_shard =
                  (IF schedule[e.idx].repeats = DAILY
                   THEN tick.elapsed_days
                   ELSE tick.elapsed_weeks) % e.num_shards

\* C7: time decomposition.  elapsed_hours is the floor of
\* (now - base_time) / 3600, (elapsed_days, hour_of_day) its divmod by 24,
\* (elapsed_weeks, day_of_week) the divmod of elapsed_days by 7, for every
\* now and base_time; now = base_time + 25h gives day 1, hour 1, weekday 1.
C7_TimeDecomposition ==
    InTick =>
        /\ tick.elapsed_hours = (now - sched_data.base_time) \div 3600
        /\ tick.elapsed_days = tick.elapsed_hours \div 24
        /\ tick.hour_of_day = tick.elapsed_hours % 24
        /\ tick.elapsed_weeks = tick.elapsed_days \div 7
        /\ tick.day_of_week = tick.elapsed_days % 7
        /\ tick.hour_of_day \in 0..23
        /\ tick.day_of_week \in 0..6
        /\ now = sched_data.base_time + 25 * 3600 =>
              (tick.elapsed_days = 1 /\ tick.hour_of_day = 1
                  /\ tick.day_of_week = 1)

\* C8: determinism.  A tick run again at the same instant on the same data
\* ends the same way with the same resolutions, filters and dispatches, and
\* any two dispatches of the two ticks with the same num_shards and cadence
\* carry the same valid_shard.
C8_Determinism ==
    /\ (sc_pc \in Finished /\ prev_tick.pc # "none") =>
          prev_tick = [pc |-> sc_pc, log |-> sc_log]
    /\ \A e1 \in RunEvents(sc_log) \cup RunEvents(prev_tick.log) :
       \A e2 \in RunEvents(sc_log) \cup RunEvents(prev_tick.log) :
          (e1.num_shards = e2.num_shards /\ e1.repeats = e2.repeats) =>
              e1.valid_shard = e2.valid_shard

C8_Witness ==
    /\ sc_pc = "done"
    /\ prev_tick.pc = "done"
    /\ \E e1 \in RunEvents(sc_log) : \E e2 \in RunEvents(sc_log) :
          /\ e1.idx = 1 /\ e2.idx = 2
          /\ e1.num_shards = 4 /\ e1.valid_shard = 1
          /\ e2.num_shards = 2 /\ e2.repeats = WEEKLY

\* C9: independent dispatch.  When a tick that is not excluded ends, every
\* scheduled schema has been evaluated, and every resolvable schema that is
\* due has been dispatched, whatever happened to the schemas before it.
C9_IndependentDispatch ==
    sc_pc \in { "done", "failed" } =>
        \A i \in 1..Len(schedule) :
            /\ \E e \in Range(sc_log) : e.ev = "resolve" /\ e.idx = i
            /\ (schedule[i].resolves /\ Due(i)) => Dispatched(i)

\* from_data has returned a Schedule
Returned == sc_pc \in { "loaded", "loop" } \cup Finished

\* The ranges as the claim lists them, of one scheduled schema's data
WithinRanges(d) ==
    /\ d.repeats \in { "daily", "weekly" }
    /\ d.hour_is_int /\ d.hour_of_day \in 0..23
    /\ d.day_of_week = NoDay \/ (d.day_is_int /\ d.day_of_week \in 0..6)
    /\ d.type \in { "file", "builder" }

AllWithinRanges(data) ==
    /\ data.excluded_days \subseteq 0..6
    /\ \A k \in 1..Len(data.schemas) : WithinRanges(data.schemas[k])

\* C23: schedule validation.  from_data returns no Schedule, and nothing is
\* resolved, filtered or dispatched, for data in which a repeats is not
\* daily/weekly, an hour_of_day is not an integer of 0..23, a present
\* day_of_week is not an integer of 0..6, an excluded day is not in 0..6 or
\* a type is not file/builder; every Schedule it returns is within all of
\* these ranges.
C23_Validation ==
    /\ ~AllWithinRanges(sched_data) =>
          (~Returned /\ schedule = << >> /\ sc_log = << >>)
    /\ sc_pc = "rejected" => (schedule = << >> /\ sc_log = << >>)
    /\ Returned =>
          /\ sched_data.excluded_days \subseteq 0..6
          /\ \A i \in 1..Len(schedule) : WithinRanges(schedule[i])

C23_Witness ==
    /\ sc_pc = "rejected"
    /\ Len(sched_data.schemas) = 2
    /\ sched_data.schemas[1].num_shards = 4
    /\ sched_data.schemas[1].valid_shard # NoShard
    /\ sched_data.schemas[2].hour_of_day = 24
    /\ sched_data.excluded_days = { 5, 6 }

\* The (day_of_week, hour_of_day) pairs of a week at which a setting is due
DueSlots(setting) ==
    { slot \in (0..6) \X (0..23) : should_run(setting, slot[2], slot[1]) }

\* C24: day_of_week is required for WEEKLY.  Data with a WEEKLY entry that
\* has no day_of_week is refused and gives no Schedule; every loaded WEEKLY
\* setting has its day_of_week in 0..6 and is due at exactly one
\* (day_of_week, hour_of_day) of the week.
C24_WeeklyNeedsDay ==
    /\ (\E k \in 1..Len(sched_data.schemas) :
            /\ sched_data.schemas[k].repeats = WEEKLY
            /\ sched_data.schemas[k].day_of_week = NoDay) => ~Returned
    /\ Returned =>
          \A i \in 1..Len(schedule) :
              schedule[i].repeats = WEEKLY =>
                  /\ schedule[i].day_of_week \in 0..6
                  /\ Cardinality(DueSlots(schedule[i])) = 1

\* The loop of run() has reached schema i
Reached(i) == \E e \in Range(sc_log) : e.idx = i

\* C25: skips are silent no-ops.  On a tick that is not excluded, a schema
\* whose should_run is false is not dispatched, gets no shard filter and
\* does not make the tick fail, resolvable or not; the schema after it is
\* still evaluated.
C25_SilentSkips ==
    sc_pc \in { "done", "failed" } =>
        \A i \in 1..Len(schedule) :
            ~Due(i) =>
                /\ ~Dispatched(i)
                /\ ~\E e \in Range(sc_log) : e.ev = "add_filter" /\ e.idx = i
                /\ ~\E e \in Range(sc_log) :
                       e.ev = "resolve" /\ e.idx = i /\ ~e.flag
                /\ (Reached(i) /\ i < Len(schedule)) => Reached(i + 1)

-----------------------------------------------------------------------------
(* The schedule loaded and run once every hour from base_time onward *)

\* num_shards of the sharded schema
ShardCounts == { 1, 2, 3, 7 }

\* 7 * num_shards days: a whole number of weeks and of rounds of the
\* shards, after which hour_of_day, day_of_week and
\* elapsed_days % num_shards come again in the same order.  The elapsed
\* time is kept modulo this period.
PeriodOf(data) == 7 * data.schemas[1].num_shards * SecondsPerDay

\* One DAILY sharded schema that resolves and runs, first loaded at base_time
HourlyInit ==
    /\ \E b \in BaseTimes, x \in ExcludedChoices, h \in { 0, 23 },
          n \in ShardCounts :
          sched_data =
              [base_time |-> b, excluded_days |-> x,
               schemas |-> << ScheduledSchemaData(FILE, TRUE, TRUE, DAILY,
                                                  h, NoDay, n) >>]
    /\ now = sched_data.base_time
    /\ schedule = << >>
    /\ sc_pc = "idle"
    /\ sc_idx = 0
    /\ tick = NoTick
    /\ sc_log = << >>
    /\ prev_tick = NoPrev
    /\ n_ticks = 0
    /\ PkgIdle
    /\ BatchIdle
    /\ FactIdle
    /\ JsonIdle
    /\ ConsoleIdle
    /\ WizardIdle

\* The run of this hour is over; the scheduler is invoked an hour later
NextHour ==
    /\ sc_pc \in Finished
    /\ now' = sched_data.base_time
                 + ((now - sched_data.base_time + SecondsPerHour)
                       % PeriodOf(sched_data))
    /\ sc_pc' = "idle"
    /\ sc_idx' = 0
    /\ schedule' = << >>
    /\ tick' = NoTick
    /\ sc_log' = << >>
    /\ n_ticks' = 0
    /\ UNCHANGED << sched_data, prev_tick, notSched >>

HourlyNext ==
    Load \/ RunBegin \/ SkipSchema \/ Dispatch \/ TickDone \/ NextHour

\* Every hour's load and run happens
SpecHourly == HourlyInit /\ [][HourlyNext]_vars /\ WF_vars(HourlyNext)

\* The schema is dispatched with shard s as its valid_shard
DispatchedShard(s) ==
    \E e \in RunEvents(sc_log) : e.idx = 1 /\ e.valid_shard = s

\* C27: shard coverage over time.  For a DAILY schema with num_shards = n,
\* loaded and run every hour from base_time on, 0 <= valid_shard < n at
\* every dispatch, and every shard 0..n-1 is eventually the valid_shard of
\* a dispatch of the schema.
C27_ShardCoverage ==
    /\ [](\A e \in RunEvents(sc_log) :
              e.valid_shard >= 0 /\ e.valid_shard < e.num_shards)
    /\ \A s \in 0..6 :
          <>(s >= sched_data.schemas[1].num_shards \/ DispatchedShard(s))

-----------------------------------------------------------------------------
(* The CODEOWNERS batcher: codeowners.py *)

\* max_batch_size: Optional[int] = None
NoMax == 0

MaxMixed == 4
MaxItems == 7
MaxBatchSize == 3

\* What codeowners.of(path) gives for an item: its first entry, or none.
\* A name is written with its leading "@", which removeprefix drops.
OwnerChoices ==
    { [kind |-> "TEAM", at |-> TRUE, text |-> "infra"],
      [kind |-> "TEAM", at |-> TRUE, text |-> "web"],
      [kind |-> "USERNAME", at |-> TRUE, text |-> "alice"],
      [kind |-> "EMAIL", at |-> FALSE, text |-> "bob@example.com"],
      [kind |-> "NONE", at |-> FALSE, text |-> ""] }

\* The inputs: every sequence of up to MaxMixed items, and the longer ones
\* (up to MaxItems) whose items all have one owner.
ItemChoices ==
    UNION { [ 1..n -> OwnerChoices ] : n \in 0..MaxMixed }
    \cup { [ k \in 1..n |-> o ] : n \in 1..MaxItems, o \in OwnerChoices }

Metadata(team, has_team, rev, has_rev, labels) ==
    [present |-> TRUE, has_team_reviewers |-> has_team, team_reviewers |-> team,
     has_reviewers |-> has_rev, reviewers |-> rev, labels |-> labels]

MetadataChoices ==
    { NoMetadata,
      Metadata(<< >>, FALSE, << >>, FALSE, << >>),
      Metadata(<< >>, FALSE, << >>, FALSE, << "automated" >>),
      Metadata(<< "core" >>, TRUE, << "carol" >>, TRUE, << "automated" >>),
      Metadata(<< "core", "infra" >>, TRUE, << "alice", "carol" >>, TRUE, << >>) }

\* owner_tuple[1].removeprefix("@")
RemovePrefix(o) == o.text

\* The members of a set of indices, in increasing order
Ascending(S) ==
    [ k \in 1..Cardinality(S) |->
        CHOOSE x \in S : Cardinality({ y \in S : y < x }) = k - 1 ]

\* Lines 65-84: the items of one owner (a dict entry), in input order
OwnedItems(items, kind, name) ==
    Ascending({ i \in 1..Len(items) :
                  items[i].kind = kind /\ RemovePrefix(items[i]) = name })

\* Lines 69-71: the list no_owners
NoOwners(items) == Ascending({ i \in 1..Len(items) : items[i].kind = "NONE" })

\* The keys of team_owners / individual_owners, in insertion order
OwnerKeys(items, kind) ==
    LET names == { RemovePrefix(items[i]) :
                       i \in { j \in 1..Len(items) : items[j].kind = kind } }
        first(n) == CHOOSE i \in 1..Len(items) :
                        /\ items[i].kind = kind /\ RemovePrefix(items[i]) = n
                        /\ \A j \in 1..(i - 1) :
                              ~(items[j].kind = kind /\ RemovePrefix(items[j]) = n)
    IN  [ k \in 1..Cardinality(names) |->
            CHOOSE n \in names :
                Cardinality({ m \in names : first(m) < first(n) }) = k - 1 ]

\* math.ceil(a / b)
Ceil(a, b) == (a + b - 1) \div b

IsSplit(group, m) == m # NoMax /\ Len(group) > m

\* Lines 92, 99: num_chunks
NumChunks(group, m) == IF IsSplit(group, m) THEN Ceil(Len(group), m) ELSE 1

\* Lines 91-100: item_chunks
ItemChunks(group, m) ==
    IF IsSplit(group, m)
    THEN LET chunk_size == Ceil(Len(group), NumChunks(group, m))
         IN  [ k \in 1..Ceil(Len(group), chunk_size) |->
                 SubSeq(group, (k - 1) * chunk_size + 1,
                        IF k * chunk_size <= Len(group)
                        THEN k * chunk_size ELSE Len(group)) ]
    ELSE << group >>

\* The title as the loop leaves it after the k-th chunk, one index ahead
TitleOfNextTurn(group, m, owner, k) ==
    [marked |-> TRUE, i |-> k + 1, n |-> NumChunks(group, m), owner |-> owner]

\* Lines 97, 101, 112-113: the title of the k-th chunk emitted for a group
Title(group, m, owner, k) ==
    IF IsSplit(group, m) \/ k > 1
    THEN [marked |-> TRUE, i |-> k, n |-> NumChunks(group, m), owner |-> owner]
    ELSE [marked |-> FALSE, i |-> 0, n |-> 0, owner |-> owner]

\* deepcopy(self.metadata or {})
MetadataOrEmpty(md) ==
    IF md.present THEN md ELSE [NoMetadata EXCEPT !.present = TRUE]

\* Lines 105-109
TeamMetadata(md, owner) ==
    LET copy == MetadataOrEmpty(md)
    IN  IF copy.has_team_reviewers /\ owner \notin Range(copy.team_reviewers)
        THEN [copy EXCEPT !.team_reviewers = Append(@, owner)]
        ELSE [copy EXCEPT !.has_team_reviewers = TRUE,
                          !.team_reviewers = << owner >>]

\* Lines 133-137
IndividualMetadata(md, owner) ==
    LET copy == MetadataOrEmpty(md)
    IN  IF copy.has_reviewers /\ owner \notin Range(copy.reviewers)
        THEN [copy EXCEPT !.reviewers = Append(@, owner)]
        ELSE [copy EXCEPT !.has_reviewers = TRUE, !.reviewers = << owner >>]

\* Lines 89-113: the batches of one team
TeamBatches(items, m, md, owner) ==
    LET group == OwnedItems(items, "TEAM", owner)
        chunks == ItemChunks(group, m)
    IN  [ k \in 1..Len(chunks) |->
            [items |-> chunks[k], title |-> Title(group, m, owner, k),
             has_metadata |-> TRUE, metadata |-> TeamMetadata(md, owner)] ]

\* Lines 116-141: the batches of one individual
IndividualBatches(items, m, md, owner) ==
    LET group == OwnedItems(items, "USERNAME", owner)
        chunks == ItemChunks(group, m)
    IN  [ k \in 1..Len(chunks) |->
            [items |-> chunks[k], title |-> Title(group, m, owner, k),
             has_metadata |-> TRUE, metadata |-> IndividualMetadata(md, owner)] ]

\* Lines 157-164: the batches the unowned loop appends
UnownedLoopBatches(items, m, md) ==
    LET group == NoOwners(items)
        chunks == ItemChunks(group, m)
    IN  [ k \in 1..Len(chunks) |->
            [items |-> chunks[k], title |-> Title(group, m, "unowned", k),
             has_metadata |-> md.present,
             metadata |-> IF md.present THEN md ELSE NoMetadata] ]

\* Lines 144-166: the loop's batches, then the append after the loop
UnownedBatches(items, m, md) ==
    IF NoOwners(items) # << >>
    THEN LET looped == UnownedLoopBatches(items, m, md)
         IN  Append(looped, looped[Len(looped)])
    ELSE << >>

\* The individual batches emitted before the team batches
CodeownersBatchIndividualsFirst(items, m, md) ==
    LET teams == OwnerKeys(items, "TEAM")
        individuals == OwnerKeys(items, "USERNAME")
    IN  Flatten([ u \in 1..Len(individuals) |->
                    IndividualBatches(items, m, md, individuals[u]) ])
        \o Flatten([ t \in 1..Len(teams) |->
                        TeamBatches(items, m, md, teams[t]) ])
        \o UnownedBatches(items, m, md)

\* CodeownersBatcher.batch
CodeownersBatch(items, m, md) ==
    LET teams == OwnerKeys(items, "TEAM")
        individuals == OwnerKeys(items, "USERNAME")
    IN  Flatten([ t \in 1..Len(teams) |-> TeamBatches(items, m, md, teams[t]) ])
        \o Flatten([ u \in 1..Len(individuals) |->
                        IndividualBatches(items, m, md, individuals[u]) ])
        \o UnownedBatches(items, m, md)

\* The dict objects behind the entries of the returned list: each turn of a
\* loop builds a new dict with a deep copy of the metadata (lines 103-105,
\* 131-133, 158-161); line 166 appends the dict of the last turn again.
BatchIds(items, m, md) ==
    LET bs == CodeownersBatch(items, m, md)
    IN  [ j \in 1..Len(bs) |->
            IF NoOwners(items) # << >> /\ j = Len(bs) THEN j - 1 ELSE j ]

\* What a caller does to batch["metadata"] of an entry it was given
Mutations == { "add_team_reviewer", "add_label" }

Mutated(md, how) ==
    IF how = "add_team_reviewer"
    THEN [md EXCEPT !.has_team_reviewers = TRUE,
                    !.team_reviewers = Append(@, "mallory")]
    ELSE [md EXCEPT !.labels = Append(@, "urgent")]

BatchInit ==
    /\ b_items \in ItemChoices
    /\ max_batch_size \in { NoMax } \cup 1..MaxBatchSize
    /\ b_metadata \in MetadataChoices
    /\ b_batches = << >>
    /\ b_ids = << >>
    /\ b_mutated = 0
    /\ b_pc = "ready"
    /\ PkgIdle
    /\ SchedIdle
    /\ FactIdle
    /\ JsonIdle
    /\ ConsoleIdle
    /\ WizardIdle

\* One call of batch(items)
CallBatch ==
    /\ b_pc = "ready"
    /\ b_batches' = CodeownersBatch(b_items, max_batch_size, b_metadata)
    /\ b_ids' = BatchIds(b_items, max_batch_size, b_metadata)
    /\ b_pc' = "returned"
    /\ UNCHANGED << b_items, max_batch_size, b_metadata, b_mutated,
                    notBatch >>

\* The caller mutates the metadata of one entry of the returned list, in
\* place.  Every entry that is the same dict shows the change; the
\* batcher's own metadata was deep-copied and is a different object.
Mutate ==
    /\ b_pc = "returned"
    /\ \E k \in 1..Len(b_batches), how \in Mutations :
          /\ b_batches[k].has_metadata
          /\ b_batches' =
                [ j \in 1..Len(b_batches) |->
                    IF b_ids[j] = b_ids[k]
                    THEN [b_batches[j] EXCEPT !.metadata = Mutated(@, how)]
                    ELSE b_batches[j] ]
          /\ b_mutated' = k
    /\ b_pc' = "mutated"
    /\ UNCHANGED << b_items, max_batch_size, b_metadata, b_ids,
                    notBatch >>

BatchNext == CallBatch \/ Mutate

SpecBatch == BatchInit /\ [][BatchNext]_vars

-----------------------------------------------------------------------------
(* Claims on the CODEOWNERS batcher, under SpecBatch *)

\* The batches returned that hold items of the group g, in emission order
BatchesOf(g) ==
    SelectSeq(b_batches, LAMBDA b : Range(b.items) \cap Range(g) # {})

ItemsOf(bs) == Flatten([ k \in 1..Len(bs) |-> bs[k].items ])

\* The owner groups of the input: each team, each individual, the unowned
OwnerGroups ==
    { OwnedItems(b_items, "TEAM", n) : n \in Range(OwnerKeys(b_items, "TEAM")) }
    \cup { OwnedItems(b_items, "USERNAME", n) :
              n \in Range(OwnerKeys(b_items, "USERNAME")) }
    \cup { NoOwners(b_items) }

ConservedIn(g) ==
    /\ Len(BatchesOf(g)) = Ceil(Len(g), max_batch_size)
    /\ ItemsOf(BatchesOf(g)) = g

\* C10: chunk conservation.  For every owner group (each team, each
\* individual, the unowned items) of size N > M = max_batch_size, batch()
\* returns exactly ceil(N / M) batches of that group, and their items
\* concatenated in emission order are the group's items, in order, once each.
C10_ChunkConservation ==
    (b_pc = "returned" /\ max_batch_size # NoMax) =>
        \A g \in OwnerGroups : Len(g) > max_batch_size => ConservedIn(g)

\* The sizes of two batches differ by at most 1
Balanced(b1, b2) ==
    /\ Len(b1.items) - Len(b2.items) <= 1
    /\ Len(b2.items) - Len(b1.items) <= 1

\* C11: chunk balance.  For every owner group of size N > M = max_batch_size
\* (M >= 1), the sizes of any two batches returned for that group differ by
\* at most 1.
C11_ChunkBalance ==
    (b_pc = "returned" /\ max_batch_size # NoMax) =>
        \A g \in OwnerGroups : Len(g) > max_batch_size =>
            \A b1, b2 \in Range(BatchesOf(g)) : Balanced(b1, b2)

\* The number of chunks the unowned items are cut into
UnownedChunkCount ==
    IF max_batch_size # NoMax /\ Len(NoOwners(b_items)) > max_batch_size
    THEN Ceil(Len(NoOwners(b_items)), max_batch_size)
    ELSE 1

\* C12: unowned emission.  When the input has items with no owner, the list
\* batch() returns holds each unowned chunk exactly once: as many unowned
\* batches as unowned chunks (1 when the group is not split), none of them
\* appended a second time after the loop.
C12_UnownedEmission ==
    (b_pc = "returned" /\ NoOwners(b_items) # << >>) =>
        /\ Len(BatchesOf(NoOwners(b_items))) = UnownedChunkCount
        /\ \A i, j \in 1..Len(b_batches) :
              (i # j /\ Range(b_batches[i].items) \cap Range(NoOwners(b_items)) # {})
                  => b_batches[i].items # b_batches[j].items

\* The owner entry of the items a returned batch holds
OwnerOf(b) == b_items[b.items[1]]

\* The base metadata (an empty dict when none is configured)
BaseMetadata == [b_metadata EXCEPT !.present = TRUE]

\* A reviewer list after the owner was injected: the owner alone when the
\* base has no such list, the base list when it names the owner already,
\* else the base list with the owner appended
Injected(has_list, list, owner) ==
    IF ~has_list THEN << owner >>
    ELSE IF owner \in Range(list) THEN list
    ELSE Append(list, owner)

ExpectedMetadata(b) ==
    CASE OwnerOf(b).kind = "TEAM" ->
            [BaseMetadata EXCEPT
                !.has_team_reviewers = TRUE,
                !.team_reviewers = Injected(b_metadata.has_team_reviewers,
                                            b_metadata.team_reviewers,
                                            OwnerOf(b).text)]
      [] OwnerOf(b).kind = "USERNAME" ->
            [BaseMetadata EXCEPT
                !.has_reviewers = TRUE,
                !.reviewers = Injected(b_metadata.has_reviewers,
                                       b_metadata.reviewers, OwnerOf(b).text)]
      [] OTHER -> b_metadata

\* C14: reviewer injection.  A team batch of owner T carries the base
\* metadata with team_reviewers = the base list plus T when T was absent,
\* [T] when the base has no such list, and the base list itself when T is
\* in it already; an individual batch the same with reviewers; an unowned
\* batch the base metadata with nothing injected; all other keys unchanged.
C14_ReviewerInjection ==
    b_pc = "returned" =>
        \A k \in 1..Len(b_batches) :
            b_batches[k].metadata = ExpectedMetadata(b_batches[k])

\* Team batches come first, then individual ones, then unowned ones
Rank(b) ==
    CASE OwnerOf(b).kind = "TEAM" -> 1
      [] OwnerOf(b).kind = "USERNAME" -> 2
      [] OTHER -> 3

SameOwner(o1, o2) == o1.kind = o2.kind /\ o1.text = o2.text

\* The position in the input of the first item of the batch's owner
FirstSeen(b) ==
    CHOOSE i \in 1..Len(b_items) :
        /\ SameOwner(b_items[i], OwnerOf(b))
        /\ \A j \in 1..(i - 1) : ~SameOwner(b_items[j], OwnerOf(b))

\* b1, emitted before b2, is in its place
InEmissionOrder(b1, b2) ==
    /\ Rank(b1) <= Rank(b2)
    /\ (Rank(b1) = Rank(b2) /\ Rank(b1) < 3) =>
          /\ FirstSeen(b1) <= FirstSeen(b2)
          /\ SameOwner(OwnerOf(b1), OwnerOf(b2)) =>
                /\ b1.items[Len(b1.items)] < b2.items[1]
                /\ b1.title.i < b2.title.i

\* C16: emission order.  In the returned list every team batch precedes
\* every individual batch and every individual batch precedes every unowned
\* batch; within the team and the individual batches the owners come in
\* first-seen order, and the chunks of one owner are adjacent and in chunk
\* order.
C16_EmissionOrder ==
    b_pc = "returned" =>
        \A i, j \in 1..Len(b_batches) :
            i < j => InEmissionOrder(b_batches[i], b_batches[j])

\* Team web, seen first, has two chunks with an item of team infra between
\* them in the input; an individual's batch follows the teams'
C16_Witness ==
    /\ b_pc = "returned"
    /\ max_batch_size = 1
    /\ Len(b_batches) = 4
    /\ b_batches[1].items = << 1 >> /\ OwnerOf(b_batches[1]).text = "web"
    /\ b_batches[2].items = << 3 >> /\ OwnerOf(b_batches[2]).text = "web"
    /\ b_batches[3].items = << 2 >> /\ OwnerOf(b_batches[3]).text = "infra"
    /\ Rank(b_batches[4]) = 2

\* The batches returned for the owner of b
GroupOf(b) ==
    { c \in Range(b_batches) : SameOwner(OwnerOf(c), OwnerOf(b)) }

\* The chunks of b's group: the item lists of its batches
ChunksOf(b) == { c.items : c \in GroupOf(b) }

\* The 1-based position of b's chunk among the chunks of its group
ChunkIndex(b) ==
    1 + Cardinality({ items \in ChunksOf(b) : items[1] < b.items[1] })

\* The owner as a title shows it
TitleOwner(b) ==
    IF OwnerOf(b).kind = "NONE" THEN "unowned" ELSE OwnerOf(b).text

TitledAsClaimed(b) ==
    LET n == Cardinality(ChunksOf(b))
    IN  /\ b.title.owner = TitleOwner(b)
        /\ IF n = 1
           THEN ~b.title.marked
           ELSE /\ b.title.marked
                /\ b.title.n = n
                /\ b.title.i = ChunkIndex(b)
                /\ b.title.i \in 1..n

ThreeInfraItems ==
    /\ b_items = [ k \in 1..3 |-> [kind |-> "TEAM", at |-> TRUE, text |-> "infra"] ]
    /\ max_batch_size = 2
    /\ ~b_metadata.has_team_reviewers

TwoInfraBatches ==
    /\ Len(b_batches) = 2
    /\ b_batches[1].items = << 1, 2 >>
    /\ b_batches[1].title = [marked |-> TRUE, i |-> 1, n |-> 2, owner |-> "infra"]
    /\ b_batches[2].items = << 3 >>
    /\ b_batches[2].title = [marked |-> TRUE, i |-> 2, n |-> 2, owner |-> "infra"]
    /\ \A k \in 1..2 : b_batches[k].metadata.team_reviewers = << "infra" >>

\* C17: titles.  A group that is a single chunk is titled "{prefix} {owner}"
\* (the owner without its "@", or "unowned"); the i-th of the n > 1 chunks
\* of a group is titled "[i/n]{prefix} {owner}", so no title has an index
\* above n nor a marker on a single chunk; 3 items of team infra with
\* max_batch_size 2 give "[1/2]prefix infra" (2 items) and
\* "[2/2]prefix infra" (1 item), both with team_reviewers = ["infra"].
C17_Titles ==
    b_pc = "returned" =>
        /\ \A k \in 1..Len(b_batches) : TitledAsClaimed(b_batches[k])
        /\ ThreeInfraItems => TwoInfraBatches

C17_Witness ==
    /\ b_pc = "returned"
    /\ ThreeInfraItems
    /\ TwoInfraBatches

\* Every returned batch has an item, and no more than max_batch_size
SizesWithinBounds ==
    \A k \in 1..Len(b_batches) :
        /\ Len(b_batches[k].items) >= 1
        /\ max_batch_size # NoMax => Len(b_batches[k].items) <= max_batch_size

\* C18: batch size bounds.  Every batch batch() returns is non-empty and,
\* when max_batch_size = M >= 1 is set, holds at most M items; with
\* max_batch_size unset each owner group (each team, each individual, the
\* unowned items) is one batch; an empty input gives no batch.
C18_BatchSizeBounds ==
    b_pc = "returned" =>
        /\ SizesWithinBounds
        /\ max_batch_size = NoMax =>
              \A g \in OwnerGroups : g # << >> => Len(BatchesOf(g)) = 1
        /\ b_items = << >> => b_batches = << >>

\* The returned batches that hold input item i
Holding(i) == { k \in 1..Len(b_batches) : i \in Range(b_batches[k].items) }

\* C26: item coverage.  Every input item, whatever the kind of its first
\* owner entry (team, username, e-mail) or without owner, is in exactly one
\* batch of the returned list: none is dropped, none is in two batches.
C26_ItemCoverage ==
    b_pc = "returned" =>
        \A i \in 1..Len(b_items) : Cardinality(Holding(i)) = 1

\* C13: metadata isolation.  Mutating the metadata of one entry of the
\* returned list (its nested reviewer lists included) changes neither the
\* metadata of any other entry nor the batcher's configured base metadata.
C13_MetadataIsolation ==
    [][ (b_pc = "returned" /\ b_pc' = "mutated") =>
          /\ b_metadata' = b_metadata
          /\ \A j \in 1..Len(b_batches) :
                j # b_mutated' =>
                    b_batches'[j].metadata = b_batches[j].metadata ]_vars

-----------------------------------------------------------------------------
(* The Input factory: FACTORY.get_instance and bundle(), as the test of     *)
(* src/tests/input/test_factory.py drives them                             *)

MaxParams == 2

\* InputName: the names test_encoding_and_decoding lists, which it asserts
\* to be all of the enum
InputName ==
    { "DIRECTORY", "EMPTY", "GIT_GREP", "INLINE", "INLINE_FILE",
      "INLINE_GENERIC" }

\* The one parameter each Input takes ("" for none), lines 51-72
FieldOf(name) ==
    CASE name = "DIRECTORY" -> "paths"
      [] name = "EMPTY" -> ""
      [] name = "GIT_GREP" -> "pattern"
      [] name = "INLINE" -> "items"
      [] name = "INLINE_FILE" -> "files"
      [] name = "INLINE_GENERIC" -> "keys"

Strings == { "foo", "bar", "foo.py" }

ListsOf(S) == UNION { [ 1..n -> S ] : n \in 0..MaxParams }

\* The bundle of an Item, as INLINE lists them: {"name": "generic", "key": k}
ItemDicts == { [name |-> "generic", key |-> k] : k \in Strings }

\* The values a parameter of the given name can have in a component dict
ValuesOf(field) ==
    CASE field = "" -> { << >> }
      [] field = "pattern" -> { << str >> : str \in Strings }
      [] field = "items" -> ListsOf(ItemDicts)
      [] OTHER -> ListsOf(Strings)

Fields == { FieldOf(n) : n \in InputName }

\* The component dicts {"name": name} | params, valid or not: a name of
\* the enum or an unknown one, with any one parameter
ComponentDicts ==
    UNION { { [name |-> n, field |-> f, value |-> v] : v \in ValuesOf(f) } :
              n \in InputName \cup { "custom/missing" }, f \in Fields }

IsValidComponent(d) == d.name \in InputName /\ d.field = FieldOf(d.name)

\* An Item built from its bundle, and its bundle
Item_from_data(d) == [cls |-> "GenericItem", key |-> d.key]
Item_bundle(item) == [name |-> "generic", key |-> item.key]

\* The attribute an Input instance holds for its parameter
Resolved(field, value) ==
    IF field = "items"
    THEN [ k \in 1..Len(value) |-> Item_from_data(value[k]) ]
    ELSE value

\* bundle() that leaves out a parameter equal to its default
bundle_without_defaults(inst) ==
    IF inst.attr = << >>
    THEN [name |-> inst.name, field |-> "", value |-> << >>]
    ELSE [name |-> inst.name, field |-> inst.field,
          value |-> IF inst.field = "items"
                    THEN [ k \in 1..Len(inst.attr) |-> Item_bundle(inst.attr[k]) ]
                    ELSE inst.attr]

\* instance.bundle(): the name and the parameters of the instance
bundle(inst) ==
    [name |-> inst.name, field |-> inst.field,
     value |-> IF inst.field = "items"
               THEN [ k \in 1..Len(inst.attr) |-> Item_bundle(inst.attr[k]) ]
               ELSE inst.attr]

\* FACTORY.get_instance(component_dict)
get_instance(d) ==
    IF d.name \notin InputName
    THEN [error |-> "UnknownComponentError"]
    ELSE IF d.field # FieldOf(d.name)
    THEN [error |-> "ConfigurationError"]
    ELSE [name |-> d.name, field |-> d.field,
          attr |-> Resolved(d.field, d.value)]

\* The classes the custom lookup path supplies, by their name
CustomNames == { "mine", "theirs" }

\* The built-in components of the factory: a class for each name
BuiltIns == [ n \in InputName |-> [name |-> n] ]

\* The key of a custom component kept under its bare name
CustomKeyBare(name) == name

\* The key a custom component of the given name is registered under
CustomKey(name) == "custom/" \o name

\* The custom components found when the classes named are imported
CustomComponents(names) ==
    [ key \in { CustomKey(n) : n \in names } |->
        [name |-> CHOOSE n \in names : CustomKey(n) = key] ]

\* FACTORY.get_class(component_name)
get_class(component_name) ==
    IF component_name \in DOMAIN f_components
    THEN f_components[component_name]
    ELSE f_custom[component_name]

FactInit ==
    /\ f_dict \in ComponentDicts
    /\ f_instance = Nothing
    /\ f_bundle = Nothing
    /\ f_pc = "ready"
    /\ f_components = BuiltIns
    /\ f_custom = << >>
    /\ PkgIdle
    /\ SchedIdle
    /\ BatchIdle
    /\ JsonIdle
    /\ ConsoleIdle
    /\ WizardIdle

\* Line 80: component_instance = FACTORY.get_instance(component_dict)
GetInstance ==
    /\ f_pc = "ready"
    /\ f_instance' = get_instance(f_dict)
    /\ f_pc' = IF "error" \in DOMAIN get_instance(f_dict)
              THEN "failed" ELSE "resolved"
    /\ UNCHANGED << f_dict, f_bundle, f_components, f_custom, notFact >>

\* Line 84: component_instance.bundle()
Bundle ==
    /\ f_pc = "resolved"
    /\ f_bundle' = bundle(f_instance)
    /\ f_pc' = "bundled"
    /\ UNCHANGED << f_dict, f_instance, f_components, f_custom, notFact >>

\* Line 40: FACTORY.get_custom_components(strict=True) imports the classes
\* of the custom lookup path and registers each
LoadCustom ==
    /\ f_custom = << >>
    /\ \E names \in SUBSET CustomNames :
          /\ names # {}
          /\ f_custom' = CustomComponents(names)
    /\ UNCHANGED << f_dict, f_instance, f_bundle, f_pc, f_components, notFact >>

FactNext == GetInstance \/ Bundle \/ LoadCustom

SpecFactory == FactInit /\ [][FactNext]_vars

-----------------------------------------------------------------------------
(* AutoTransformPackage.to_json / from_json: package.py lines 95-125 *)

\* InputType, BatcherType, FilterType: the names the factories know
InputType == { "directory", "git_grep" }
BatcherType == { "chunk", "directory", "single" }
FilterType == { "extension" }

\* The bundle of a component: its type and its parameters
ComponentBundles(types) == { [type |-> t, params |-> "p"] : t \in types }

\* The bundle of a filter; the key "inverted" may be missing from a
\* document written by hand
FilterBundles ==
    { [type |-> t, has_inverted |-> h, inverted |-> i, params |-> ".py"] :
        t \in FilterType \cup { "unknown" }, h \in BOOLEAN, i \in BOOLEAN }
    \ { [type |-> t, has_inverted |-> FALSE, inverted |-> TRUE, params |-> ".py"] :
          t \in FilterType \cup { "unknown" } }

BundleLists(S, max) == UNION { [ 1..n -> S ] : n \in 0..max }

\* The "config" of a document: no level, a level's value or its name
ConfigBundles == ConfigInputs \ { [kind |-> "ctor_default", v |-> 0, n |-> ""] }

\* The documents from_json may be given
PackageDocuments ==
    [ input : ComponentBundles(InputType),
      batcher : ComponentBundles(BatcherType),
      transformer : ComponentBundles({ "regex" }),
      filters : BundleLists(FilterBundles, MaxFilters),
      validators : BundleLists(ComponentBundles({ "validator" }), MaxValidators),
      commands : BundleLists(ComponentBundles({ "command" }), MaxCommands),
      config : ConfigBundles ]

\* InputFactory.get and the like: the instance of a bundle
Factory_get(b) == [cls |-> b.type, args |-> b.params]

\* Component.bundle
Component_bundle(inst) == [type |-> inst.cls, params |-> inst.args]

\* FilterFactory.get that takes every filter as not inverted
FilterFactory_get_not_inverted(filter) ==
    [cls |-> filter.type, inverted |-> FALSE, args |-> filter.params]

\* FilterFactory.get, for a filter type that has a getter
FilterFactory_get(filter) ==
    [cls |-> filter.type,
     inverted |-> IF filter.has_inverted THEN filter.inverted ELSE FALSE,
     args |-> filter.params]

\* Filter.bundle
Filter_bundle(inst) ==
    [type |-> inst.cls, has_inverted |-> TRUE, inverted |-> inst.inverted,
     params |-> inst.args]

\* PackageConfiguration.bundle, as json.dumps writes it: the level's value
PackageConfiguration_bundle(level) == [kind |-> "value", v |-> level, n |-> ""]

\* AutoTransformPackage.to_json
to_json(package) ==
    [ input |-> Component_bundle(package.input),
      batcher |-> Component_bundle(package.batcher),
      transformer |-> Component_bundle(package.transformer),
      filters |-> [ k \in 1..Len(package.filters) |->
                    Filter_bundle(package.filters[k]) ],
      validators |-> [ k \in 1..Len(package.validators) |->
                    Component_bundle(package.validators[k]) ],
      commands |-> [ k \in 1..Len(package.commands) |->
                    Component_bundle(package.commands[k]) ],
      config |-> PackageConfiguration_bundle(package.config) ]

\* A getter table that answers for any type
HasGettersForAll(doc) == TRUE

\* FilterFactory._getters[filter["type"]] finds a getter for every filter
HasGetters(doc) ==
    \A k \in 1..Len(doc.filters) : doc.filters[k].type \in FilterType

\* AutoTransformPackage.from_json
from_json(doc) ==
    [ input |-> Factory_get(doc.input),
      batcher |-> Factory_get(doc.batcher),
      transformer |-> Factory_get(doc.transformer),
      filters |-> [ k \in 1..Len(doc.filters) |->
                    FilterFactory_get(doc.filters[k]) ],
      validators |-> [ k \in 1..Len(doc.validators) |->
                    Factory_get(doc.validators[k]) ],
      commands |-> [ k \in 1..Len(doc.commands) |->
                    Factory_get(doc.commands[k]) ],
      config |-> PackageConfiguration_from_data(doc.config) ]

\* The instances of the components of a set of types
Instances(types) == { Factory_get(b) : b \in ComponentBundles(types) }

FilterInstances ==
    { [cls |-> t, inverted |-> i, args |-> ".py"] :
        t \in FilterType, i \in BOOLEAN }

\* AutoTransformPackage.__init__: the packages built from components, the
\* lists and the configuration given or left to their defaults
Packages ==
    [ input : Instances(InputType),
      batcher : Instances(BatcherType),
      transformer : Instances({ "regex" }),
      filters : BundleLists(FilterInstances, MaxFilters),
      validators : BundleLists(Instances({ "validator" }), MaxValidators),
      commands : BundleLists(Instances({ "command" }), MaxCommands),
      config : { PackageConfiguration_default } \cup Levels ]

JsonInit ==
    /\ \/ /\ j_doc \in PackageDocuments
          /\ j_package = << >>
          /\ j_pc = "document"
       \/ /\ j_doc = Nothing
          /\ \E package \in Packages : j_package = << package >>
          /\ j_pc = "package"
    /\ j_json = << >>
    /\ j_getters = FilterType
    /\ j_error = Nothing
    /\ PkgIdle
    /\ SchedIdle
    /\ BatchIdle
    /\ FactIdle
    /\ ConsoleIdle
    /\ WizardIdle

\* The document from_json is given: the one at hand at first, later the
\* one to_json returned last
NextDocument == IF j_json = << >> THEN j_doc ELSE j_json[Len(j_json)]

\* The type of the first filter of the document that has no getter: the
\* key of the KeyError
MissingGetter(doc) ==
    LET missing == { k \in 1..Len(doc.filters) :
                       doc.filters[k].type \notin FilterType }
    IN  doc.filters[CHOOSE k \in missing : \A m \in missing : k <= m].type

\* from_json(json_package) on a document it can resolve
FromJson ==
    /\ j_pc = "document"
    /\ HasGetters(NextDocument)
    /\ j_package' = Append(j_package, from_json(NextDocument))
    /\ j_pc' = "package"
    /\ UNCHANGED << j_doc, j_json, j_getters, j_error, notJson >>

\* from_json(json_package) raising: a filter type without a getter
FromJsonFails ==
    /\ j_pc = "document"
    /\ ~HasGetters(NextDocument)
    /\ j_pc' = "failed"
    /\ j_error' = [kind |-> "KeyError", key |-> MissingGetter(NextDocument)]
    /\ UNCHANGED << j_doc, j_package, j_json, j_getters, notJson >>

\* to_json() of the package built last; its result is what is read next
ToJson ==
    /\ j_pc = "package"
    /\ Len(j_json) < 2
    /\ j_json' = Append(j_json, to_json(j_package[Len(j_package)]))
    /\ j_pc' = IF Len(j_json) = 0 THEN "document" ELSE "done"
    /\ UNCHANGED << j_doc, j_package, j_getters, j_error, notJson >>

JsonNext == FromJson \/ FromJsonFails \/ ToJson

SpecJson == JsonInit /\ [][JsonNext]_vars

\* The package p that was serialized first, and the one read back from it
FirstPackage == j_package[Len(j_package) - 1]
ReadBack == j_package[Len(j_package)]

\* C20: package round trip.  For every package p,
\* from_json(to_json(p)).to_json() = to_json(p): the input, the batcher, the
\* transformer, the filters, validators and commands (same order and
\* count) and config.allowed_validation_level are all preserved, whether
\* the level was stored by value or by member name.
C20_PackageRoundTrip ==
    /\ j_json # << >> => j_pc # "failed"
    /\ j_pc = "done" =>
          /\ j_json[2] = j_json[1]
          /\ ReadBack.input = FirstPackage.input
          /\ ReadBack.batcher = FirstPackage.batcher
          /\ ReadBack.transformer = FirstPackage.transformer
          /\ ReadBack.filters = FirstPackage.filters
          /\ ReadBack.validators = FirstPackage.validators
          /\ ReadBack.commands = FirstPackage.commands
          /\ ReadBack.config = FirstPackage.config

\* A package first read from a document that stores the level by member
\* name and has an inverted filter after one without the key "inverted"
C20_Witness ==
    /\ j_pc = "done"
    /\ j_doc # Nothing
    /\ j_doc.config = [kind |-> "name", v |-> 0, n |-> "WARNING"]
    /\ Len(j_doc.filters) = 2
    /\ ~j_doc.filters[1].has_inverted
    /\ j_doc.filters[2].inverted
    /\ Len(j_doc.validators) = 2
    /\ j_json[1].config = [kind |-> "value", v |-> WARNING, n |-> ""]
    /\ j_json[2].filters[2].inverted
    /\ ReadBack.config = WARNING

\* The filters of every package built have a type of the getter table, and
\* those read from a bundle without "inverted" are not inverted
ResolvedFromGetters ==
    /\ \A p \in 1..Len(j_package) : \A k \in 1..Len(j_package[p].filters) :
          j_package[p].filters[k].cls \in j_getters
    /\ (j_doc # Nothing /\ j_package # << >>) =>
          \A k \in 1..Len(j_doc.filters) :
              ~j_doc.filters[k].has_inverted =>
                  j_package[1].filters[k].inverted = FALSE

\* A failed resolution: the lookup error names a type without a getter
\* and no package was built
FailedAsUnknown ==
    /\ j_error # Nothing
    /\ j_error.kind = "KeyError"
    /\ j_error.key \notin j_getters
    /\ \E k \in 1..Len(j_doc.filters) : j_doc.filters[k].type = j_error.key
    /\ j_package = << >>

IsUnknown(doc) ==
    \E k \in 1..Len(doc.filters) : doc.filters[k].type \notin j_getters

-----------------------------------------------------------------------------
(* input_int: src/autotransform/util/console.py *)

Some(v) == [none |-> FALSE, v |-> v]

\* The characters of the lines a user enters
Chars == { "-", "1", "5", "x" }
Digits == << "0", "1", "2", "3", "4", "5", "6", "7", "8", "9" >>

MaxLineLen == 3
MaxLines == 2

\* A line is its characters in order
Lines == UNION { [ 1..n -> Chars ] : n \in 0..MaxLineLen }
Sessions == UNION { [ 1..n -> Lines ] : n \in 0..MaxLines }

\* (min_val, max_val) of the call
RangeChoices ==
    { << None, None >>, << Some(0), Some(5) >>, << Some(-5), Some(5) >>,
      << Some(1), Some(15) >>, << Some(5), Some(5) >>, << None, Some(1) >>,
      << Some(1), None >> }

\* str.startswith("-")
startswith_dash(str) == str # << >> /\ str[1] = "-"

\* str.isdigit(): not empty, and every character a digit
isdigit(str) == str # << >> /\ \A k \in 1..Len(str) : str[k] \in Range(Digits)

DigitValue(c) == CHOOSE v \in 0..9 : Digits[v + 1] = c

\* int(str) of a string of digits
RECURSIVE int(_)
int(str) ==
    IF str = << >> THEN 0
    ELSE 10 * int(SubSeq(str, 1, Len(str) - 1)) + DigitValue(str[Len(str)])

\* Lines 162-164: is_negative and str_val after the test of the sign
SignOf(line, is_negative) ==
    IF startswith_dash(line) THEN "True" ELSE is_negative

StrVal(line) == IF startswith_dash(line) THEN Tail(line) ELSE line

\* Line 169
IntVal(line, is_negative) ==
    IF SignOf(line, is_negative) = "True"
    THEN 0 - int(StrVal(line))
    ELSE int(StrVal(line))

\* Lines 170-175: the value is under min_val or over max_val
OutOfRange(v, min_val, max_val) ==
    \/ ~min_val.none /\ v < min_val.v
    \/ ~max_val.none /\ v > max_val.v

ConsoleInit ==
    /\ \E r \in RangeChoices : i_min = r[1] /\ i_max = r[2]
    /\ i_lines \in Sessions
    /\ i_read = << >>
    /\ i_is_negative = "unbound"
    /\ i_pc = "called"
    /\ i_result = None
    /\ PkgIdle
    /\ SchedIdle
    /\ BatchIdle
    /\ FactIdle
    /\ JsonIdle
    /\ WizardIdle

\* Lines 148-152: one choice only, returned without a prompt
ReturnOnlyChoice ==
    /\ i_pc = "called"
    /\ ~i_min.none /\ ~i_max.none /\ i_min.v = i_max.v
    /\ i_result' = Some(i_min.v)
    /\ i_pc' = "returned"
    /\ UNCHANGED << i_min, i_max, i_lines, i_read, i_is_negative, notConsole >>

\* Lines 153-161: the range string is built and the loop entered
BeginPrompt ==
    /\ i_pc = "called"
    /\ ~(~i_min.none /\ ~i_max.none /\ i_min.v = i_max.v)
    /\ i_pc' = "prompt"
    /\ UNCHANGED << i_min, i_max, i_lines, i_read, i_is_negative, i_result,
                    notConsole >>

\* Lines 161-175: a line is read and refused (not digits, too low, too
\* high); the loop goes on
RejectLine ==
    /\ i_pc = "prompt"
    /\ i_lines # << >>
    /\ LET line == Head(i_lines)
           sign == SignOf(line, i_is_negative)
       IN  /\ IF isdigit(StrVal(line))
              THEN /\ sign # "unbound"
                   /\ OutOfRange(IntVal(line, i_is_negative), i_min, i_max)
              ELSE TRUE
           /\ i_is_negative' = sign
           /\ i_read' = Append(i_read, line)
    /\ i_lines' = Tail(i_lines)
    /\ UNCHANGED << i_min, i_max, i_pc, i_result, notConsole >>

\* Line 169 reads is_negative, which no line has assigned yet:
\* UnboundLocalError leaves input_int
ReadUnbound ==
    /\ i_pc = "prompt"
    /\ i_lines # << >>
    /\ LET line == Head(i_lines)
       IN  /\ isdigit(StrVal(line))
           /\ SignOf(line, i_is_negative) = "unbound"
           /\ i_read' = Append(i_read, line)
    /\ i_lines' = Tail(i_lines)
    /\ i_pc' = "failed"
    /\ UNCHANGED << i_min, i_max, i_is_negative, i_result, notConsole >>

\* Lines 161-176: a line is read and its value returned
ReturnLine ==
    /\ i_pc = "prompt"
    /\ i_lines # << >>
    /\ LET line == Head(i_lines)
           sign == SignOf(line, i_is_negative)
       IN  /\ isdigit(StrVal(line))
           /\ sign # "unbound"
           /\ ~OutOfRange(IntVal(line, i_is_negative), i_min, i_max)
           /\ i_is_negative' = sign
           /\ i_read' = Append(i_read, line)
           /\ i_result' = Some(IntVal(line, i_is_negative))
    /\ i_lines' = Tail(i_lines)
    /\ i_pc' = "returned"
    /\ UNCHANGED << i_min, i_max, notConsole >>

ConsoleNext ==
    ReturnOnlyChoice \/ BeginPrompt \/ RejectLine \/ ReadUnbound \/ ReturnLine

SpecConsole == ConsoleInit /\ [][ConsoleNext]_vars

\* A line that denotes a decimal integer, with an optional leading "-"
IsDecimal(line) == isdigit(IF startswith_dash(line) THEN Tail(line) ELSE line)

\* The integer such a line denotes
Denoted(line) ==
    IF startswith_dash(line) THEN 0 - int(Tail(line)) ELSE int(line)

\* The line denotes an integer within the bounds
Acceptable(line) ==
    IsDecimal(line) /\ ~OutOfRange(Denoted(line), i_min, i_max)

\* The lines input_int has refused so far
Refused ==
    IF i_pc = "returned" /\ i_read # << >>
    THEN SubSeq(i_read, 1, Len(i_read) - 1)
    ELSE i_read

\* C28: input_int never fails and returns only within [min_val, max_val];
\* it refuses only lines that do not denote a decimal integer (optional
\* leading "-") within the bounds and returns exactly the integer of the
\* first line that does, whatever lines were refused before; when
\* min_val = max_val it returns that value without a prompt.
C28_InputInt ==
    /\ i_pc # "failed"
    /\ i_pc = "returned" => ~OutOfRange(i_result.v, i_min, i_max)
    /\ \A k \in 1..Len(Refused) : ~Acceptable(Refused[k])
    /\ (i_pc = "returned" /\ i_read # << >>) =>
          /\ Acceptable(Last(i_read))
          /\ i_result = Some(Denoted(Last(i_read)))
    /\ (~i_min.none /\ ~i_max.none /\ i_min.v = i_max.v /\ i_pc # "called") =>
          (i_pc = "returned" /\ i_read = << >> /\ i_result = i_min)

-----------------------------------------------------------------------------
(* The initialize wizard: src/autotransform/scripts/commands/initialize.py *)

\* The config_name arguments of write_config
ConfigNames == { "user", "repo", "current working directory" }

\* What the user may type at a prompt.  A dict is a function from its keys;
\* every value is written as a string ("True", "None").
Tokens == { "ghp_new" }
TypedUrls == { "https://ghe.example/api" }
TypedComponents == { "my.components" }
TypedRunners == { "{typed runner}" }
DefaultLocalRunner == "{local runner}"
DefaultRemoteRunner == "{github runner}"

EmptyDict == << >>

\* prev_inputs.get(key)
Get(dict, key) == IF key \in DOMAIN dict THEN dict[key] ELSE "None"

\* for key, value in new.items(): inputs[key] = value
Update(inputs, new) == new @@ inputs

\* input_string(prompt, name, previous, default): the previous value if
\* there is one other than the default and the user takes it, the default
\* if there is one and the user takes it, or what the user types
input_string(previous, default, typed) ==
    (IF previous # "None" /\ previous # default THEN { previous } ELSE {})
    \cup (IF default # "None" THEN { default } ELSE {})
    \cup typed

\* A token is asked for in every config
GetTokenAlways(config_name) == TRUE

\* write_config: get_token is config_name == "user"
GetToken(config_name) == config_name = "user"

\* get_config_credentials(get_token, prev_inputs): every (section, inputs)
\* the answers can give
get_config_credentials(get_token, prev_inputs) ==
    { [section |-> EmptyDict, inputs |-> "use_github" :> "False",
       asked |-> FALSE] }
    \cup
    { [section |-> token @@ url.section,
       inputs |-> url.inputs @@ ("use_github" :> "True"),
       asked |-> get_token] :
        token \in (IF get_token
                   THEN { "github_token" :> t : t \in Tokens }
                   ELSE { EmptyDict }),
        url \in { [section |-> "github_base_url" :> u,
                   inputs |-> "github_base_url" :> u] :
                    u \in input_string(Get(prev_inputs, "github_base_url"),
                                       "None", TypedUrls) }
                \cup { [section |-> EmptyDict,
                        inputs |-> "github_base_url" :> "None"] } }

\* get_config_imports(prev_inputs)
get_config_imports(prev_inputs) ==
    { [section |-> EmptyDict, inputs |-> EmptyDict] }
    \cup
    { [section |-> "components" :> c, inputs |-> "import_components" :> c] :
        c \in input_string(Get(prev_inputs, "import_components"), "None",
                           TypedComponents) }

\* get_config_runner(prev_inputs)
get_config_runner(prev_inputs) ==
    { [section |-> ("local" :> l) @@ ("remote" :> r),
       inputs |-> ("runner_local" :> l) @@ ("runner_remote" :> r)] :
        l \in input_string(Get(prev_inputs, "runner_local"),
                           DefaultLocalRunner, TypedRunners),
        r \in input_string(Get(prev_inputs, "runner_remote"),
                           DefaultRemoteRunner, TypedRunners) }

NoFile == [exists |-> FALSE, CREDENTIALS |-> EmptyDict, IMPORTS |-> EmptyDict,
           RUNNER |-> EmptyDict]

\* A config an earlier run (or an editor) left on disk
OldFile == [exists |-> TRUE, CREDENTIALS |-> "github_token" :> "ghp_old",
            IMPORTS |-> EmptyDict,
            RUNNER |-> ("local" :> DefaultLocalRunner)
                          @@ ("remote" :> DefaultRemoteRunner)]

\* write_config(config_path, config_name, prev_inputs): every outcome the
\* answers can give: the file is kept and {} returned, or it is written
write_config(config_name, prev_inputs, file) ==
    (IF file.exists
     THEN { [written |-> FALSE, file |-> file, inputs |-> EmptyDict,
             asked |-> FALSE] }
     ELSE {})
    \cup
    { [written |-> TRUE,
       file |-> [exists |-> TRUE, CREDENTIALS |-> c.section,
                 IMPORTS |-> i.section, RUNNER |-> r.section],
       inputs |-> Update(Update(Update(EmptyDict, c.inputs), i.inputs),
                         r.inputs),
       asked |-> c.asked] :
        c \in get_config_credentials(GetToken(config_name), prev_inputs),
        i \in get_config_imports(prev_inputs),
        r \in get_config_runner(prev_inputs) }

WizardInit ==
    /\ w_files \in [ ConfigNames -> { NoFile, OldFile } ]
    /\ w_inputs = EmptyDict
    /\ w_repo_dir = ""
    /\ w_setup_repo = FALSE
    /\ w_written = {}
    /\ w_passed = {}
    /\ w_asked = {}
    /\ w_pc = "start"
    /\ PkgIdle
    /\ SchedIdle
    /\ BatchIdle
    /\ FactIdle
    /\ JsonIdle
    /\ ConsoleIdle

\* inputs = write_config(path, config_name, prev_inputs), with outcome out
WriteConfig(config_name, prev_inputs, out) ==
    /\ w_files' = [w_files EXCEPT ![config_name] = out.file]
    /\ w_written' = IF out.written THEN w_written \cup { config_name }
                                   ELSE w_written
    /\ w_asked' = IF out.asked THEN w_asked \cup { config_name } ELSE w_asked

\* initialize_command_main, line 407
WriteUserConfig ==
    /\ w_pc = "start"
    /\ \E out \in write_config("user", EmptyDict, w_files["user"]) :
          /\ WriteConfig("user", EmptyDict, out)
          /\ w_inputs' = out.inputs
    /\ w_passed' = w_passed \cup { EmptyDict }
    /\ w_pc' = "user_done"
    /\ UNCHANGED << w_repo_dir, w_setup_repo, notWizard >>

\* Lines 410-418: git finds the repo and the user is asked, or it does not
FindRepo ==
    /\ w_pc = "user_done"
    /\ \E found \in BOOLEAN, answer \in BOOLEAN :
          /\ w_repo_dir' = IF found THEN "/repo" ELSE ""
          /\ w_setup_repo' = (found /\ answer)
    /\ w_pc' = "repo_found"
    /\ UNCHANGED << w_files, w_inputs, w_written, w_passed, w_asked,
                    notWizard >>

\* Lines 420-425: the repo config is written, initialize_repo gets inputs
WriteRepoConfig ==
    /\ w_pc = "repo_found"
    /\ w_setup_repo
    /\ \E out \in write_config("repo", w_inputs, w_files["repo"]) :
          /\ WriteConfig("repo", w_inputs, out)
          /\ w_inputs' = out.inputs
          /\ w_passed' = w_passed \cup { w_inputs, out.inputs }
    /\ w_pc' = "repo_done"
    /\ UNCHANGED << w_repo_dir, w_setup_repo, notWizard >>

\* Line 420: setup_repo is false
SkipRepo ==
    /\ w_pc = "repo_found"
    /\ ~w_setup_repo
    /\ w_pc' = "repo_done"
    /\ UNCHANGED << w_files, w_inputs, w_repo_dir, w_setup_repo, w_written,
                    w_passed, w_asked, notWizard >>

\* Lines 427-431: no repo, and the user wants a config for the cwd
WriteCwdConfig ==
    /\ w_pc = "repo_done"
    /\ w_repo_dir = ""
    /\ \E out \in write_config("current working directory", w_inputs,
                                w_files["current working directory"]) :
          WriteConfig("current working directory", w_inputs, out)
    /\ w_passed' = w_passed \cup { w_inputs }
    /\ w_pc' = "end"
    /\ UNCHANGED << w_inputs, w_repo_dir, w_setup_repo, notWizard >>

\* Line 427: there is a repo, or the user wants no config for the cwd
SkipCwd ==
    /\ w_pc = "repo_done"
    /\ w_pc' = "end"
    /\ UNCHANGED << w_files, w_inputs, w_repo_dir, w_setup_repo, w_written,
                    w_passed, w_asked, notWizard >>

WizardNext ==
    WriteUserConfig \/ FindRepo \/ WriteRepoConfig \/ SkipRepo
        \/ WriteCwdConfig \/ SkipCwd

SpecWizard == WizardInit /\ [][WizardNext]_vars

\* A dict holds a token: under the key github_token, or as a value
HoldsToken(dict) ==
    \/ "github_token" \in DOMAIN dict
    \/ \E k \in DOMAIN dict : dict[k] \in Tokens

\* C29: tokens go to the user config only.  A Github token is asked for
\* only by write_config for "user" and stored only in the CREDENTIALS
\* section of that file; the repo config and the cwd config the wizard
\* writes hold no github_token, and no inputs map that is handed on from
\* one config to the next holds the token.
C29_TokenOnlyInUserConfig ==
    /\ w_asked \subseteq { "user" }
    /\ \A name \in w_written :
          /\ ~HoldsToken(w_files[name].IMPORTS)
          /\ ~HoldsToken(w_files[name].RUNNER)
          /\ name # "user" => ~HoldsToken(w_files[name].CREDENTIALS)
          /\ "github_token" \in DOMAIN w_files[name].CREDENTIALS =>
                name \in w_asked
    /\ \A dict \in w_passed \cup { w_inputs } : ~HoldsToken(dict)

C29_Witness ==
    /\ w_pc = "end"
    /\ w_written = { "user", "repo" }
    /\ Get(w_files["user"].CREDENTIALS, "github_token") = "ghp_new"
    /\ DOMAIN w_files["repo"].CREDENTIALS = { "github_base_url" }
    /\ Get(w_inputs, "use_github") = "True"

=============================================================================
